---- MODULE Spec2Model ----
(***************************************************************************)
(* Dependency resolution engine of pip-rs: the requirement / version       *)
(* model, the marker evaluator and the concurrent graph-walking Resolver.  *)
(*                                                                         *)
(* Strings are sequences of one-character strings, so that parsing,        *)
(* trimming, splitting and case folding are computed as the code computes  *)
(* them.  Offsets are 0-based as in the Rust source; Slice(s, a, b) is     *)
(* s[a..b].  A `let x = e;` of the source is written                       *)
(* CHOOSE r \in {body(x) : x \in {e}} : TRUE, which computes e once.        *)
(***************************************************************************)
EXTENDS Integers, Sequences, FiniteSets, TLC

\* ------------------------------------------------------------------------
\* Characters and string primitives (std::str)
\* ------------------------------------------------------------------------
Digits == {"0", "1", "2", "3", "4", "5", "6", "7", "8", "9"}

LowerLetters ==
    {"a", "b", "c", "d", "e", "f", "g", "h", "i", "j", "k", "l", "m",
     "n", "o", "p", "q", "r", "s", "t", "u", "v", "w", "x", "y", "z"}

UpperLetters ==
    {"A", "B", "C", "D", "E", "F", "G", "H", "I", "J", "K", "L", "M",
     "N", "O", "P", "Q", "R", "S", "T", "U", "V", "W", "X", "Y", "Z"}

\* char::is_alphanumeric on the ASCII range
is_alphanumeric(c) == c \in Digits \cup LowerLetters \cup UpperLetters

\* char::is_whitespace on the characters the model uses
is_whitespace(c) == c \in {" ", "\t"}

UpperToLower ==
    [c \in UpperLetters |->
        CASE c = "A" -> "a" [] c = "B" -> "b" [] c = "C" -> "c" [] c = "D" -> "d"
          [] c = "E" -> "e" [] c = "F" -> "f" [] c = "G" -> "g" [] c = "H" -> "h"
          [] c = "I" -> "i" [] c = "J" -> "j" [] c = "K" -> "k" [] c = "L" -> "l"
          [] c = "M" -> "m" [] c = "N" -> "n" [] c = "O" -> "o" [] c = "P" -> "p"
          [] c = "Q" -> "q" [] c = "R" -> "r" [] c = "S" -> "s" [] c = "T" -> "t"
          [] c = "U" -> "u" [] c = "V" -> "v" [] c = "W" -> "w" [] c = "X" -> "x"
          [] c = "Y" -> "y" [] c = "Z" -> "z"]

\* str::to_lowercase
to_lowercase(s) ==
    [i \in 1..Len(s) |-> IF s[i] \in UpperLetters THEN UpperToLower[s[i]] ELSE s[i]]

\* str::replace(from, to) for a one-character pattern
replace(s, from, to) == [i \in 1..Len(s) |-> IF s[i] = from THEN to ELSE s[i]]

\* s[a..b] with 0-based offsets
Slice(s, a, b) == SubSeq(s, a + 1, b)

\* s[a..]
SliceFrom(s, a) == SubSeq(s, a + 1, Len(s))

RECURSIVE trim_start(_)
trim_start(s) ==
    IF s # <<>> /\ is_whitespace(Head(s)) THEN trim_start(Tail(s)) ELSE s

RECURSIVE trim_end(_)
trim_end(s) ==
    IF s # <<>> /\ is_whitespace(s[Len(s)])
    THEN trim_end(SubSeq(s, 1, Len(s) - 1))
    ELSE s

trim(s) == trim_end(trim_start(s))

\* str::starts_with
starts_with(s, p) == Len(s) >= Len(p) /\ SubSeq(s, 1, Len(p)) = p

\* str::ends_with
ends_with(s, p) == Len(s) >= Len(p) /\ SubSeq(s, Len(s) - Len(p) + 1, Len(s)) = p

\* str::find: the 0-based offset of the first occurrence of p, or -1 (None)
first_of(hits) ==
    IF hits = {} THEN -1 ELSE CHOOSE i \in hits : \A j \in hits : i <= j

find(s, p) ==
    first_of({i \in 0..(Len(s) - Len(p)) : Slice(s, i, i + Len(p)) = p})

\* str::contains
contains(s, p) == find(s, p) >= 0

\* str::trim_matches(c): strips every leading and trailing c
RECURSIVE trim_matches(_, _)
trim_matches(s, c) ==
    IF s # <<>> /\ Head(s) = c THEN trim_matches(Tail(s), c)
    ELSE IF s # <<>> /\ s[Len(s)] = c THEN trim_matches(SubSeq(s, 1, Len(s) - 1), c)
    ELSE s

\* str::split(c): the pieces between the separators, empty pieces included
RECURSIVE split(_, _)
RECURSIVE split_at(_, _, _)
split_at(s, c, i) ==
    IF i < 0 THEN <<s>> ELSE <<Slice(s, 0, i)>> \o split(SliceFrom(s, i + 1), c)

split(s, c) == split_at(s, c, find(s, <<c>>))

\* A u32 is kept as its decimal digits without leading zeros (<<"0">> for
\* zero), so that the whole range up to u32::MAX = 4294967295 is exact.
U32Max == <<"4", "2", "9", "4", "9", "6", "7", "2", "9", "5">>

DigitVal ==
    [c \in Digits |->
        CASE c = "0" -> 0 [] c = "1" -> 1 [] c = "2" -> 2 [] c = "3" -> 3
          [] c = "4" -> 4 [] c = "5" -> 5 [] c = "6" -> 6 [] c = "7" -> 7
          [] c = "8" -> 8 [] c = "9" -> 9]

RECURSIVE StripZeros(_)
StripZeros(s) ==
    IF Len(s) > 1 /\ Head(s) = "0" THEN StripZeros(Tail(s)) ELSE s

\* Ordering of two u32 values: -1 (Less), 0 (Equal), 1 (Greater)
RECURSIVE CmpDigits(_, _)
CmpDigits(a, b) ==
    IF a = <<>> THEN 0
    ELSE IF DigitVal[Head(a)] < DigitVal[Head(b)] THEN -1
    ELSE IF DigitVal[Head(a)] > DigitVal[Head(b)] THEN 1
    ELSE CmpDigits(Tail(a), Tail(b))

\* The ordering of the texts, not of the numbers
RECURSIVE cmp_text(_, _)
cmp_text(a, b) ==
    IF a = <<>> \/ b = <<>> THEN (IF a # <<>> THEN 1 ELSE IF b # <<>> THEN -1 ELSE 0)
    ELSE IF DigitVal[Head(a)] < DigitVal[Head(b)] THEN -1
    ELSE IF DigitVal[Head(a)] > DigitVal[Head(b)] THEN 1
    ELSE cmp_text(Tail(a), Tail(b))

cmp_u32(a, b) ==
    IF Len(a) < Len(b) THEN -1
    ELSE IF Len(a) > Len(b) THEN 1
    ELSE CmpDigits(a, b)

U32Zero == <<"0">>

\* str::parse::<u32>: an optional '+', then one or more digits, the value at
\* most u32::MAX; anything else is Err
in_u32_range(v) ==
    IF cmp_u32(v, U32Max) > 0
    THEN [ok |-> FALSE, val |-> U32Zero]
    ELSE [ok |-> TRUE, val |-> v]

parse_digits(body) ==
    IF body = <<>> \/ \E i \in 1..Len(body) : body[i] \notin Digits
    THEN [ok |-> FALSE, val |-> U32Zero]
    ELSE in_u32_range(StripZeros(body))

parse_u32(s) ==
    parse_digits(IF s # <<>> /\ Head(s) = "+" THEN Tail(s) ELSE s)

\* ------------------------------------------------------------------------
\* Requirement model and parsing (models/requirement.rs)
\* ------------------------------------------------------------------------
None == [some |-> FALSE, val |-> <<>>]

Some(v) == [some |-> TRUE, val |-> v]

VersionSpec(op, version) == [op |-> op, version |-> version]

Requirement(name, specs, extras, marker) ==
    [name |-> name, specs |-> specs, extras |-> extras, marker |-> marker]

\* The if-chain with the one-character operators tried first
spec_operator_prefix_first(remaining) ==
    IF starts_with(remaining, <<"<">>) THEN [op |-> "Lt", skip |-> 1]
    ELSE IF starts_with(remaining, <<">">>) THEN [op |-> "Gt", skip |-> 1]
    ELSE IF starts_with(remaining, <<"=", "=">>) THEN [op |-> "Eq", skip |-> 2]
    ELSE IF starts_with(remaining, <<"!", "=">>) THEN [op |-> "NotEq", skip |-> 2]
    ELSE IF starts_with(remaining, <<"<", "=">>) THEN [op |-> "LtEq", skip |-> 2]
    ELSE IF starts_with(remaining, <<">", "=">>) THEN [op |-> "GtEq", skip |-> 2]
    ELSE IF starts_with(remaining, <<"~", "=">>) THEN [op |-> "Compatible", skip |-> 2]
    ELSE [op |-> "Err", skip |-> 0]

\* The operator a clause begins with, two-character operators tried in the
\* order of the if-chain; skip = 0 stands for the Err branch.
spec_operator(remaining) ==
    IF starts_with(remaining, <<"=", "=">>) THEN [op |-> "Eq", skip |-> 2]
    ELSE IF starts_with(remaining, <<"!", "=">>) THEN [op |-> "NotEq", skip |-> 2]
    ELSE IF starts_with(remaining, <<"<", "=">>) THEN [op |-> "LtEq", skip |-> 2]
    ELSE IF starts_with(remaining, <<">", "=">>) THEN [op |-> "GtEq", skip |-> 2]
    ELSE IF starts_with(remaining, <<"<">>) THEN [op |-> "Lt", skip |-> 1]
    ELSE IF starts_with(remaining, <<">">>) THEN [op |-> "Gt", skip |-> 1]
    ELSE IF starts_with(remaining, <<"~", "=">>) THEN [op |-> "Compatible", skip |-> 2]
    ELSE [op |-> "Err", skip |-> 0]

\* The character loop over rest: version characters are collected, a comma
\* ends the clause, any other character is passed over.
RECURSIVE scan_version(_, _, _, _)
scan_version(rest, i, version, version_end) ==
    IF i >= Len(rest) THEN [version |-> version, version_end |-> version_end]
    ELSE LET ch == rest[i + 1]
         IN  IF is_alphanumeric(ch) \/ ch \in {".", "*", "+"}
             THEN scan_version(rest, i + 1, Append(version, ch), i + 1)
             ELSE IF ch = ","
             THEN [version |-> version, version_end |-> version_end]
             ELSE scan_version(rest, i + 1, version, i + 1)

\* After a clause: a following comma is stepped over
after_clause(s, pos) ==
    IF pos < Len(s) /\ starts_with(trim_start(SliceFrom(s, pos)), <<",">>)
    THEN pos + find(SliceFrom(s, pos), <<",">>) + 1
    ELSE pos

\* The while loop of parse_version_specs, one stage per statement of its
\* body: [ok, specs]
RECURSIVE parse_version_specs_from(_, _, _)
RECURSIVE clause_scanned(_, _, _, _, _, _)
clause_scanned(s, pos, specs, op, rest, sc) ==
    IF sc.version = <<>> THEN [ok |-> FALSE, specs |-> <<>>]
    ELSE CHOOSE r \in
             {parse_version_specs_from(s, next, found) :
                 next \in {after_clause(s, pos + (Len(s) - pos) - Len(rest)
                                              + sc.version_end)},
                 found \in {Append(specs, VersionSpec(op, sc.version))}} : TRUE

clause_rest(s, pos, specs, op, rest) ==
    CHOOSE r \in {clause_scanned(s, pos, specs, op, rest, sc) :
                     sc \in {scan_version(rest, 0, <<>>, 0)}} : TRUE

clause_operator(s, pos, specs, remaining, o) ==
    IF o.skip = 0 THEN [ok |-> FALSE, specs |-> <<>>]
    ELSE CHOOSE r \in
             {clause_rest(s, pos, specs, o.op, rest) :
                 rest \in {trim_start(SliceFrom(remaining, o.skip))}} : TRUE

clause(s, pos, specs, remaining) ==
    IF remaining = <<>> THEN [ok |-> TRUE, specs |-> specs]
    ELSE CHOOSE r \in {clause_operator(s, pos, specs, remaining, o) :
                          o \in {spec_operator(remaining)}} : TRUE

parse_version_specs_from(s, pos, specs) ==
    IF pos >= Len(s) THEN [ok |-> TRUE, specs |-> specs]
    ELSE CHOOSE r \in {clause(s, pos, specs, remaining) :
                          remaining \in {trim_start(SliceFrom(s, pos))}} : TRUE

parse_version_specs(s) ==
    CHOOSE r \in {parse_version_specs_from(t, 0, <<>>) : t \in {trim(s)}} : TRUE

\* The length of the leading run of name characters
RECURSIVE name_end(_, _)
name_end(req_part, i) ==
    IF i < Len(req_part)
       /\ (is_alphanumeric(req_part[i + 1]) \/ req_part[i + 1] \in {"_", "-"})
    THEN name_end(req_part, i + 1)
    ELSE i

\* <Requirement as FromStr>::from_str, one stage per statement: [ok, req]
build_requirement(name, parsed, extras, marker) ==
    IF ~parsed.ok
    THEN [ok |-> FALSE, req |-> Requirement(<<>>, <<>>, <<>>, None)]
    ELSE [ok |-> TRUE,
          req |-> Requirement(replace(to_lowercase(name), "_", "-"),
                              parsed.specs, extras, marker)]

with_version_part(name, version_part, extras, marker) ==
    CHOOSE r \in
        {build_requirement(name, parsed, extras, marker) :
            parsed \in {IF version_part # <<>>
                        THEN parse_version_specs(version_part)
                        ELSE [ok |-> TRUE, specs |-> <<>>]}} : TRUE

trim_each(pieces) == [i \in 1..Len(pieces) |-> trim(pieces[i])]

with_extras(name, remainder, bracket_end, marker) ==
    IF bracket_end >= 0
    THEN CHOOSE r \in
             {with_version_part(name, version_part, extras, marker) :
                 version_part \in {trim(SliceFrom(remainder, bracket_end + 1))},
                 extras \in {trim_each(split(Slice(remainder, 1, bracket_end),
                                             ","))}} : TRUE
    ELSE CHOOSE r \in {with_version_part(name, version_part, <<>>, marker) :
                          version_part \in {trim(remainder)}} : TRUE

with_remainder(name, remainder, marker) ==
    CHOOSE r \in
        {with_extras(name, remainder, bracket_end, marker) :
            bracket_end \in {IF starts_with(remainder, <<"[">>)
                             THEN find(remainder, <<"]">>) ELSE -1}} : TRUE

with_name(req_part, pos, marker) ==
    CHOOSE r \in {with_remainder(name, remainder, marker) :
                     name \in {Slice(req_part, 0, pos)},
                     remainder \in {SliceFrom(req_part, pos)}} : TRUE

with_req_part(req_part, marker) ==
    CHOOSE r \in {with_name(req_part, pos, marker) :
                     pos \in {name_end(req_part, 0)}} : TRUE

split_marker(s, idx) ==
    IF idx >= 0
    THEN CHOOSE r \in {with_req_part(req_part, Some(marker)) :
                          req_part \in {trim(Slice(s, 0, idx))},
                          marker \in {trim(SliceFrom(s, idx + 1))}} : TRUE
    ELSE with_req_part(s, None)

\* The split at the last ';' instead of the first
split_at_last_semicolon(s) ==
    CHOOSE r \in
        {split_marker(s, idx) :
            idx \in {IF \E i \in 1..Len(s) : s[i] = ";"
                     THEN (CHOOSE i \in 1..Len(s) :
                              /\ s[i] = ";"
                              /\ \A j \in (i + 1)..Len(s) : s[j] # ";") - 1
                     ELSE -1}} : TRUE

trimmed_from_str(s) ==
    CHOOSE r \in {split_marker(s, idx) : idx \in {find(s, <<";">>)}} : TRUE

from_str(str) == CHOOSE r \in {trimmed_from_str(s) : s \in {trim(str)}} : TRUE

\* ------------------------------------------------------------------------
\* Environment markers (models/marker.rs)
\* ------------------------------------------------------------------------
\* split('.') followed by filter_map(parse::<u32>().ok()): the components
\* that parse, in order
ok_value(r) == IF r.ok THEN <<r.val>> ELSE <<>>

RECURSIVE numeric_parts(_)
numeric_parts(pieces) ==
    IF pieces = <<>> THEN <<>>
    ELSE CHOOSE r \in {ok_value(parse_u32(piece)) \o numeric_parts(rest) :
                          piece \in {Head(pieces)}, rest \in {Tail(pieces)}} : TRUE

parse_parts(version) ==
    CHOOSE r \in {numeric_parts(pieces) : pieces \in {split(version, ".")}} : TRUE

\* parts.get(i).copied().unwrap_or(0), i 0-based
part_or_zero(parts, i) == IF i < Len(parts) THEN parts[i + 1] ELSE U32Zero

Max(a, b) == IF a >= b THEN a ELSE b

\* The component loop: the ordering at the first differing component
RECURSIVE compare_parts(_, _, _)
RECURSIVE compare_from(_, _, _, _)
compare_from(p1, p2, i, c) ==
    IF c # 0 THEN c
    ELSE CHOOSE r \in {compare_parts(p1, p2, j) : j \in {i + 1}} : TRUE

\* The ordering of the two lists as Vec<u32>, the shorter one first when it
\* is a prefix of the longer
RECURSIVE compare_vecs(_, _, _)
compare_vecs(p1, p2, i) ==
    IF i >= Len(p1) \/ i >= Len(p2)
    THEN (IF Len(p1) < Len(p2) THEN -1 ELSE IF Len(p1) > Len(p2) THEN 1 ELSE 0)
    ELSE IF cmp_u32(p1[i + 1], p2[i + 1]) # 0 THEN cmp_u32(p1[i + 1], p2[i + 1])
    ELSE compare_vecs(p1, p2, i + 1)

compare_parts(p1, p2, i) ==
    IF i >= Max(Len(p1), Len(p2)) THEN 0
    ELSE CHOOSE r \in
             {compare_from(p1, p2, i, c) :
                 c \in {cmp_u32(part_or_zero(p1, i), part_or_zero(p2, i))}} : TRUE

\* Marker::compare_versions
compare_versions(v1, v2) ==
    CHOOSE r \in {compare_parts(p1, p2, 0) :
                     p1 \in {parse_parts(v1)}, p2 \in {parse_parts(v2)}} : TRUE

\* Marker::get_variable_value
get_variable_value(var, env) ==
    CASE var = <<"p","y","t","h","o","n","_","v","e","r","s","i","o","n">>
            -> env.python_version
      [] var = <<"p","y","t","h","o","n","_","f","u","l","l","_","v","e","r","s","i","o","n">>
            -> env.python_full_version
      [] var = <<"o","s","_","n","a","m","e">> -> env.os_name
      [] var = <<"s","y","s","_","p","l","a","t","f","o","r","m">> -> env.sys_platform
      [] var = <<"p","l","a","t","f","o","r","m","_","r","e","l","e","a","s","e">>
            -> env.platform_release
      [] var = <<"p","l","a","t","f","o","r","m","_","s","y","s","t","e","m">>
            -> env.platform_system
      [] var = <<"p","l","a","t","f","o","r","m","_","v","e","r","s","i","o","n">>
            -> env.platform_version
      [] var = <<"p","l","a","t","f","o","r","m","_","m","a","c","h","i","n","e">>
            -> env.platform_machine
      [] var = <<"p","l","a","t","f","o","r","m","_","p","y","t","h","o","n","_",
                 "i","m","p","l","e","m","e","n","t","a","t","i","o","n">>
            -> env.platform_python_implementation
      [] var = <<"i","m","p","l","e","m","e","n","t","a","t","i","o","n","_","n","a","m","e">>
            -> env.implementation_name
      [] var = <<"i","m","p","l","e","m","e","n","t","a","t","i","o","n","_",
                 "v","e","r","s","i","o","n">>
            -> env.implementation_version
      [] OTHER -> <<>>

\* The operator of a condition, in the order of the if-chain; "None" is the
\* final else (return false)
condition_operator(cond) ==
    IF contains(cond, <<"!", "=">>) THEN [op |-> "NotEq", op_str |-> <<"!", "=">>]
    ELSE IF contains(cond, <<"=", "=">>) THEN [op |-> "Eq", op_str |-> <<"=", "=">>]
    ELSE IF contains(cond, <<"<", "=">>) THEN [op |-> "LtEq", op_str |-> <<"<", "=">>]
    ELSE IF contains(cond, <<">", "=">>) THEN [op |-> "GtEq", op_str |-> <<">", "=">>]
    ELSE IF contains(cond, <<"<">>) THEN [op |-> "Lt", op_str |-> <<"<">>]
    ELSE IF contains(cond, <<">">>) THEN [op |-> "Gt", op_str |-> <<">">>]
    ELSE IF contains(cond, <<" ", "i", "n", " ">>)
    THEN [op |-> "In", op_str |-> <<" ", "i", "n", " ">>]
    ELSE IF contains(cond, <<" ", "n", "o", "t", " ", "i", "n", " ">>)
    THEN [op |-> "NotIn", op_str |-> <<" ", "n", "o", "t", " ", "i", "n", " ">>]
    ELSE [op |-> "None", op_str |-> <<>>]

unquote(str) == trim_matches(trim_matches(trim(str), "'"), "\"")

\* The final match of evaluate_condition on the operator
condition_holds(op, var_value, value) ==
    CASE op = "None"  -> FALSE
      [] op = "Eq"    -> var_value = value
      [] op = "NotEq" -> var_value # value
      [] op = "Lt"    -> compare_versions(var_value, value) < 0
      [] op = "LtEq"  -> compare_versions(var_value, value) <= 0
      [] op = "Gt"    -> compare_versions(var_value, value) > 0
      [] op = "GtEq"  -> compare_versions(var_value, value) >= 0
      [] op = "In"    -> contains(value, var_value)
      [] op = "NotIn" -> ~contains(value, var_value)

\* cond.splitn(2, op_str), the two sides unquoted, and the variable looked up
split_condition(cond, o, at, env) ==
    CHOOSE r \in
        {condition_holds(o.op, get_variable_value(var, env), value) :
            var \in {unquote(Slice(cond, 0, at))},
            value \in {unquote(SliceFrom(cond, at + Len(o.op_str)))}} : TRUE

with_operator(cond, o, env) ==
    CHOOSE r \in {split_condition(cond, o, at, env) :
                     at \in {find(cond, o.op_str)}} : TRUE

\* "Remove parentheses"
strip_parens(c0) ==
    IF starts_with(c0, <<"(">>) /\ ends_with(c0, <<")">>)
    THEN Slice(c0, 1, Len(c0) - 1) ELSE c0

parse_condition(cond, env) ==
    CHOOSE r \in {with_operator(cond, o, env) :
                     o \in {condition_operator(cond)}} : TRUE

\* Marker::evaluate_condition
evaluate_condition(condition, env) ==
    CHOOSE r \in {parse_condition(cond, env) :
                     cond \in {strip_parens(trim(condition))}} : TRUE

\* Marker::evaluate_expression
RECURSIVE evaluate_expression(_, _)
RECURSIVE split_expression(_, _, _, _)
\* The two tests in the other order: " and " looked for before " or "
split_expression_and_first(expr, env, or_idx, and_idx) ==
    IF and_idx >= 0
    THEN CHOOSE r \in
             {evaluate_expression(left, env) /\ evaluate_expression(right, env) :
                 left \in {Slice(expr, 0, and_idx)},
                 right \in {SliceFrom(expr, and_idx + 5)}} : TRUE
    ELSE IF or_idx >= 0
    THEN CHOOSE r \in
             {evaluate_expression(left, env) \/ evaluate_expression(right, env) :
                 left \in {Slice(expr, 0, or_idx)},
                 right \in {SliceFrom(expr, or_idx + 4)}} : TRUE
    ELSE evaluate_condition(trim(expr), env)

split_expression(expr, env, or_idx, and_idx) ==
    IF or_idx >= 0
    THEN CHOOSE r \in
             {evaluate_expression(left, env) \/ evaluate_expression(right, env) :
                 left \in {Slice(expr, 0, or_idx)},
                 right \in {SliceFrom(expr, or_idx + 4)}} : TRUE
    ELSE IF and_idx >= 0
    THEN CHOOSE r \in
             {evaluate_expression(left, env) /\ evaluate_expression(right, env) :
                 left \in {Slice(expr, 0, and_idx)},
                 right \in {SliceFrom(expr, and_idx + 5)}} : TRUE
    ELSE evaluate_condition(trim(expr), env)

evaluate_expression(expr, env) ==
    CHOOSE r \in
        {split_expression(expr, env, or_idx, and_idx) :
            or_idx \in {find(expr, <<" ", "o", "r", " ">>)},
            and_idx \in {find(expr, <<" ", "a", "n", "d", " ">>)}} : TRUE

\* Marker::parse: [ok, marker]
Marker_parse(str) ==
    LET s == trim(str)
    IN  IF s = <<>> THEN [ok |-> FALSE, marker |-> [expression |-> <<>>]]
        ELSE [ok |-> TRUE, marker |-> [expression |-> s]]

\* Marker::evaluate
evaluate(marker, env) == evaluate_expression(marker.expression, env)

\* ------------------------------------------------------------------------
\* Resolver: version checks (resolver/resolver.rs)
\* ------------------------------------------------------------------------
\* HashMap::insert on a map kept as a function
Put(map, key, value) ==
    [k \in DOMAIN map \cup {key} |-> IF k = key THEN value ELSE map[k]]

EmptyMap == [k \in {} |-> <<>>]

\* Resolver::parse_version_cached: [parts, vc], vc the version cache after
\* the call
cache_parts(vc, version, parts) == [parts |-> parts, vc |-> Put(vc, version, parts)]

\* Mutant: the cache holds the version parsed last and no other
parse_version_latest_only(vc, version) ==
    IF version \in DOMAIN vc
    THEN [parts |-> vc[version], vc |-> vc]
    ELSE CHOOSE r \in {cache_parts(EmptyMap, version, parts) :
                          parts \in {parse_parts(version)}} : TRUE

parse_version_cached(vc, version) ==
    IF version \in DOMAIN vc
    THEN [parts |-> vc[version], vc |-> vc]
    ELSE CHOOSE r \in {cache_parts(vc, version, parts) :
                          parts \in {parse_parts(version)}} : TRUE

\* The match with a Compatible arm that does not ask for cmp != Less
op_holds_no_floor(op, cmp, v1_parts, v2_parts) ==
    CASE op = "Eq"    -> cmp = 0
      [] op = "NotEq" -> cmp # 0
      [] op = "Lt"    -> cmp < 0
      [] op = "LtEq"  -> cmp <= 0
      [] op = "Gt"    -> cmp > 0
      [] op = "GtEq"  -> cmp >= 0
      [] op = "Compatible" ->
            /\ part_or_zero(v1_parts, 0) = part_or_zero(v2_parts, 0)
            /\ part_or_zero(v1_parts, 1) = part_or_zero(v2_parts, 1)

\* The match with a Compatible arm that does not look at the minor component
op_holds_major_only(op, cmp, v1_parts, v2_parts) ==
    CASE op = "Eq"    -> cmp = 0
      [] op = "NotEq" -> cmp # 0
      [] op = "Lt"    -> cmp < 0
      [] op = "LtEq"  -> cmp <= 0
      [] op = "Gt"    -> cmp > 0
      [] op = "GtEq"  -> cmp >= 0
      [] op = "Compatible" ->
            /\ part_or_zero(v1_parts, 0) = part_or_zero(v2_parts, 0)
            /\ cmp >= 0

\* The match on spec.op, cmp the ordering of the two part lists
op_holds(op, cmp, v1_parts, v2_parts) ==
    CASE op = "Eq"    -> cmp = 0
      [] op = "NotEq" -> cmp # 0
      [] op = "Lt"    -> cmp < 0
      [] op = "LtEq"  -> cmp <= 0
      [] op = "Gt"    -> cmp > 0
      [] op = "GtEq"  -> cmp >= 0
      [] op = "Compatible" ->
            /\ part_or_zero(v1_parts, 0) = part_or_zero(v2_parts, 0)
            /\ part_or_zero(v1_parts, 1) = part_or_zero(v2_parts, 1)
            /\ cmp >= 0

compare_and_match(op, v1_parts, r2) ==
    CHOOSE r \in {[ok |-> op_holds(op, cmp, v1_parts, r2.parts), vc |-> r2.vc] :
                     cmp \in {compare_parts(v1_parts, r2.parts, 0)}} : TRUE

check_with_parts(r1, spec) ==
    CHOOSE r \in {compare_and_match(spec.op, r1.parts, r2) :
                     r2 \in {parse_version_cached(r1.vc, spec.version)}} : TRUE

\* Resolver::check_version_spec: [ok, vc]
check_version_spec(vc, version, spec) ==
    CHOOSE r \in {check_with_parts(r1, spec) :
                     r1 \in {parse_version_cached(vc, version)}} : TRUE

\* Resolver::satisfies_version: [ok, vc]; the loop returns at the first
\* spec that fails
RECURSIVE satisfies_version(_, _, _)
RECURSIVE satisfies_rest(_, _, _)
satisfies_rest(r, version, specs) ==
    IF ~r.ok THEN r ELSE satisfies_version(r.vc, version, specs)

satisfies_version(vc, version, specs) ==
    IF specs = <<>> THEN [ok |-> TRUE, vc |-> vc]
    ELSE CHOOSE res \in
             {satisfies_rest(r, version, rest) :
                 r \in {check_version_spec(vc, version, Head(specs))},
                 rest \in {Tail(specs)}} : TRUE

\* The loop over the constraint requirements of a name: [ok, vc]; it breaks
\* at the first constraint requirement that is not satisfied
RECURSIVE satisfies_constraints(_, _, _)
RECURSIVE constraints_rest(_, _, _)
constraints_rest(r, version, constraint_reqs) ==
    IF ~r.ok THEN r ELSE satisfies_constraints(r.vc, version, constraint_reqs)

satisfies_constraints(vc, version, constraint_reqs) ==
    IF constraint_reqs = <<>> THEN [ok |-> TRUE, vc |-> vc]
    ELSE CHOOSE res \in
             {constraints_rest(r, version, rest) :
                 r \in {satisfies_version(vc, version, Head(constraint_reqs).specs)},
                 rest \in {Tail(constraint_reqs)}} : TRUE

\* ------------------------------------------------------------------------
\* The strings of the scenarios
\* ------------------------------------------------------------------------
S_linux == <<"l", "i", "n", "u", "x">>

S_win32 == <<"w", "i", "n", "3", "2">>

S_posix == <<"p", "o", "s", "i", "x">>

S_nt == <<"n", "t">>

S_3_11 == <<"3", ".", "1", "1">>

S_3_11_0 == <<"3", ".", "1", "1", ".", "0">>

S_unknown == <<"u", "n", "k", "n", "o", "w", "n">>

S_Darwin == <<"D", "a", "r", "w", "i", "n">>

S_x86_64 == <<"x", "8", "6", "_", "6", "4">>

S_CPython == <<"C", "P", "y", "t", "h", "o", "n">>

S_cpython == <<"c", "p", "y", "t", "h", "o", "n">>

S_alpha == <<"a", "l", "p", "h", "a">>

S_beta == <<"b", "e", "t", "a">>

S_a == <<"a">>

S_b == <<"b">>

S_c == <<"c">>

S_d == <<"d">>

S_e == <<"e">>

S_f == <<"f">>

S_B == <<"B">>

S_D == <<"D">>

V_1_2 == <<"1", ".", "2">>

V_1_0 == <<"1", ".", "0">>

V_1_5 == <<"1", ".", "5">>

V_0_9 == <<"0", ".", "9">>

S_beta_linux ==
    <<"b", "e", "t", "a", ">", "=", "1", ".", "0", ";", " ", "s", "y", "s",
      "_", "p", "l", "a", "t", "f", "o", "r", "m", "=", "=", "'", "l", "i",
      "n", "u", "x", "'">>

S_b_linux ==
    <<"b", ">", "=", "1", ".", "0", ";", " ", "s", "y", "s", "_", "p", "l",
      "a", "t", "f", "o", "r", "m", "=", "=", "'", "l", "i", "n", "u", "x",
      "'">>

S_D_ge == <<"D", ">", "=", "1", ".", "0">>

S_e_bad == <<"e", "=", "1">>

S_alpha_ge == <<"a", "l", "p", "h", "a", ">", "=", "1", ".", "0">>

S_a_ge == <<"a", ">", "=", "1", ".", "0">>

S_b_lt == <<"b", "<", "1", ".", "0">>

S_c_ge == <<"c", ">", "=", "1", ".", "0">>

S_c_lt == <<"c", "<", "1", ".", "0", "r", "c", "1">>

\* ------------------------------------------------------------------------
\* Environments (models/marker.rs, Environment::current)
\* ------------------------------------------------------------------------
EnvLinux ==
    [python_version |-> S_3_11, python_full_version |-> S_3_11_0,
     os_name |-> S_posix, sys_platform |-> S_linux,
     platform_release |-> S_unknown, platform_system |-> S_Darwin,
     platform_version |-> S_unknown, platform_machine |-> S_x86_64,
     platform_python_implementation |-> S_CPython,
     implementation_name |-> S_cpython, implementation_version |-> S_3_11]

EnvWindows == [EnvLinux EXCEPT !.os_name = S_nt, !.sys_platform = S_win32]

Environments == {EnvLinux, EnvWindows}

\* ------------------------------------------------------------------------
\* The metadata source (network::get_package_metadata), an external
\* collaborator: each world fixes its answer for every name.  A Package is
\* kept with the fields the resolver reads.
\* ------------------------------------------------------------------------
Package(name, version, requires_dist) ==
    [name |-> name, version |-> version, requires_dist |-> requires_dist]

FetchOk(package) == [kind |-> "Ok", package |-> package]

NoPackage == Package(<<>>, <<>>, <<>>)

\* The source answers with an error
FetchErr == [kind |-> "Err", package |-> NoPackage]

\* The fetch task fails (a panic inside the task)
FetchPanic == [kind |-> "Panic", package |-> NoPackage]

\* The semaphore width resolve() passes to resolve_concurrent
max_concurrent == 10

DigitStr ==
    <<<<"0">>, <<"1">>, <<"2">>, <<"3">>, <<"4">>, <<"5">>, <<"6">>, <<"7">>,
      <<"8">>, <<"9">>, <<"1", "0">>>>

\* The names n0 .. n10 and w0 .. w10: one more than a batch can hold
RingName(i) == <<"n">> \o DigitStr[i + 1]

WideName(i) == <<"w">> \o DigitStr[i + 1]

Indices == 0..max_concurrent

\* End-to-end world: alpha 1.2 requires beta on linux only
SourceE2E ==
    [n \in {S_alpha, S_beta} |->
        IF n = S_alpha THEN FetchOk(Package(S_alpha, V_1_2, <<S_beta_linux>>))
        ELSE FetchOk(Package(S_beta, V_1_0, <<>>))]

\* Graph world: a shared dependency (c), a cycle (a -> c -> a), a marker
\* edge and a plain edge to b, an entry that does not parse, a package (d)
\* older than one of its requirements, a source error (e), a failing task (f)
SourceGraph ==
    [n \in {S_a, S_b, S_c, S_d, S_e, S_f} |->
        CASE n = S_a -> FetchOk(Package(S_a, V_1_0, <<S_b_linux, S_c>>))
          [] n = S_b -> FetchOk(Package(S_b, V_1_5, <<S_c, S_D_ge>>))
          [] n = S_c -> FetchOk(Package(S_c, V_1_0, <<S_a, S_B, S_e_bad, S_d>>))
          [] n = S_d -> FetchOk(Package(S_D, V_0_9, <<S_e>>))
          [] n = S_e -> FetchErr
          [] n = S_f -> FetchPanic]

\* Ring world: n0 -> n1 -> ... -> n10 -> n0
SourceRing ==
    [n \in {RingName(i) : i \in Indices} |->
        LET i == CHOOSE j \in Indices : RingName(j) = n
        IN  FetchOk(Package(n, V_1_0, <<RingName((i + 1) % (max_concurrent + 1))>>))]

\* Wide world: w0 .. w10 without dependencies
SourceWide ==
    [n \in {WideName(i) : i \in Indices} |-> FetchOk(Package(n, V_1_0, <<>>))]

Source(world) ==
    CASE world = "e2e"   -> SourceE2E
      [] world = "graph" -> SourceGraph
      [] world = "ring"  -> SourceRing
      [] world = "wide"  -> SourceWide

\* get_package_metadata(name, "latest"): a name the source does not know is
\* an error
get_package_metadata(world, name) ==
    IF name \in DOMAIN Source(world) THEN Source(world)[name] ELSE FetchErr

\* The requirement lists a caller passes to resolve(), as the strings it
\* parses them from (commands/install.rs)
RequestStrings(world) ==
    CASE world = "e2e"   -> {<<S_alpha_ge>>, <<S_beta, S_alpha>>, <<S_beta_linux>>}
      [] world = "graph" -> {<<S_a, S_a_ge>>, <<S_b>>, <<S_f, S_e, S_c>>,
                             <<S_b_lt, S_a>>, <<S_b, S_b_lt>>}
      [] world = "ring"  -> {<<RingName(0)>>, <<RingName(3), RingName(0)>>}
      [] world = "wide"  -> {[i \in 1..(max_concurrent + 1) |-> WideName(i - 1)]}

\* The caller's loop over the requirement strings; every string of the
\* scenarios parses
parse_all(strs) == [i \in 1..Len(strs) |-> from_str(strs[i]).req]

\* The parsed requirement lists of each world
RequestsE2E == {parse_all(strs) : strs \in RequestStrings("e2e")}

RequestsGraph == {parse_all(strs) : strs \in RequestStrings("graph")}

RequestsRing == {parse_all(strs) : strs \in RequestStrings("ring")}

RequestsWide == {parse_all(strs) : strs \in RequestStrings("wide")}

Requests(world) ==
    CASE world = "e2e"   -> RequestsE2E
      [] world = "graph" -> RequestsGraph
      [] world = "ring"  -> RequestsRing
      [] world = "wide"  -> RequestsWide

\* The constraint lists a caller passes to set_constraints(): the graph
\* world is the one resolved under constraints
ConstraintStrings == {<<S_c_ge>>, <<S_c_lt>>}

ConstraintsGraph == {parse_all(strs) : strs \in ConstraintStrings}

ConstraintLists(world) == IF world = "graph" THEN ConstraintsGraph ELSE {}

\* ------------------------------------------------------------------------
\* Resolver state (resolver/resolver.rs)
\* ------------------------------------------------------------------------
VARIABLES
    world,          \* which metadata source the run talks to
    cache,          \* Resolver.cache: package name -> Package
    visited,        \* Resolver.visited: set of names
    environment,    \* Resolver.environment
    constraints,    \* Resolver.constraints: name -> Vec<Requirement>
    version_cache,  \* Resolver.version_cache: version string -> parts
    pc,             \* position of the task driving resolve()
    queue,          \* resolve_concurrent: queue
    resolved,       \* resolve_concurrent: resolved
    permits,        \* resolve_concurrent: free permits of the semaphore
    handles,        \* resolve_concurrent: the spawned fetch tasks of the batch
    ret,            \* what the last resolve() call returned
    call,           \* history: the requirements of the current / last call
                    \* and the visited set it started from
    fetches,        \* history: name -> fetches started in the current call
    trace,          \* history: what the current call did, in order
    prev,           \* history: the call before, if nothing reset it since
    arg,            \* the arguments of a single function call under check
    out,            \* what that call returned
    installed_candidates,   \* CandidateSelector.installed_candidates
    strategy,       \* CandidateSelector.strategy
    dep_cache,      \* DependencyCache.cache: key -> CachedDependencies
    hits,           \* DependencyCache.hits
    misses,         \* DependencyCache.misses
    lock_file,      \* the LockFile value a caller holds, if any
    disk,           \* the file system: path -> contents
    modified,       \* the file system: cache file -> time of its last write
    clock,          \* the system clock: SystemTime::now()
    disk_cache,     \* the DiskCache of the client: its directory and TTL
    command,        \* the command being handled, and how it ended
    log             \* history: the calls made on the selector or the cache

vars ==
    <<world, cache, visited, environment, constraints, version_cache, pc,
      queue, resolved, permits, handles, ret, call, fetches, trace, prev,
      arg, out, installed_candidates, strategy, dep_cache, hits, misses,
      lock_file, disk, modified, clock, disk_cache, command, log>>

function_call == <<arg, out>>

selector_fields == <<installed_candidates, strategy>>

dependency_cache_fields == <<dep_cache, hits, misses>>

\* What is not part of a Resolver
cache_files == <<disk_cache, modified, clock>>

components ==
    <<selector_fields, dependency_cache_fields, lock_file, disk, cache_files,
      command, log>>

resolver_fields == <<cache, visited, environment, constraints, version_cache>>

call_locals == <<queue, resolved, permits, handles>>

NoRequirement == Requirement(<<>>, <<>>, <<>>, None)

\* One entry of the history of a call
Event(ev, name, req, dep, outcome, package) ==
    [ev |-> ev, name |-> name, req |-> req, dep |-> dep, outcome |-> outcome,
     package |-> package]

\* Mutant: the visited check at dequeue is lost
never_visited(vis, name) == FALSE

\* self.visited.contains(&req.name)
already_visited(vis, name) == name \in vis

\* Mutant: the name is not marked at dequeue
mark_nothing(vis, name) == vis

\* self.visited.insert(req.name.clone())
mark_visited(vis, name) == vis \cup {name}

\* Mutant: the batch is not cut at max_concurrent
batch_unbounded(batch) == TRUE

\* batch.len() < max_concurrent
batch_has_room(batch) == Len(batch) < max_concurrent

\* The inner loop that drains the queue into a batch: [queue, visited,
\* batch, trace]
RECURSIVE collect_batch(_, _, _, _)
collect_batch(q, vis, batch, tr) ==
    IF batch_has_room(batch) /\ q # <<>>
    THEN CHOOSE r \in
             {IF already_visited(vis, req.name)
              THEN collect_batch(rest, vis, batch,
                       Append(tr, Event("dequeue", req.name, req, <<>>,
                                        "discarded", NoPackage)))
              ELSE collect_batch(rest, mark_visited(vis, req.name),
                       Append(batch, req),
                       Append(tr, Event("dequeue", req.name, req, <<>>,
                                        "batched", NoPackage))) :
                 req \in {Head(q)}, rest \in {Tail(q)}} : TRUE
    ELSE [queue |-> q, visited |-> vis, batch |-> batch, trace |-> tr]

\* self.constraints.get(&req.name).cloned()
constraints_get(cons, name) ==
    IF name \in DOMAIN cons THEN Some(cons[name]) ELSE None

NoResult == [join |-> "Pending", package_result |-> FetchErr]

\* One tokio::spawn per batch member, in batch order
spawn_batch(batch, cons) ==
    [i \in 1..Len(batch) |->
        [name            |-> batch[i].name,
         specs           |-> batch[i].specs,
         constraint_reqs |-> constraints_get(cons, batch[i].name),
         req_name        |-> batch[i].name,
         st              |-> "spawned",
         at              |-> 0,
         result          |-> NoResult]]

\* Semaphore::new(max_concurrent)
new_semaphore == max_concurrent

\* Mutant: the permit is leaked (never returned to the semaphore)
leak_permit(p) == p

\* Dropping the permit at the end of the task
release_permit(p) == p + 1

\* What the JoinHandle of a task yields for an answer of the source
join_result(answer) ==
    IF answer.kind = "Panic"
    THEN [join |-> "Err", package_result |-> FetchErr]
    ELSE [join |-> "Ok", package_result |-> answer]

\* ------------------------------------------------------------------------
\* Resolver: applying the results of a batch.  The loop state st carries
\* the fields and locals the loop writes: cache, visited, version_cache,
\* queue, resolved, the history, and failed (an error leaving the function;
\* the code has none).
\* ------------------------------------------------------------------------
\* if let Some(marker_str) .. if let Ok(marker) .. if !marker.evaluate(env):
\* the dependency is skipped
marker_false(parsed, env) == parsed.ok /\ ~evaluate(parsed.marker, env)

\* Mutant: markers are not looked at
marker_ignored(dep_req, env) == FALSE

\* Mutant: the dependency is skipped when its marker holds
marker_inverted(dep_req, env) ==
    /\ dep_req.marker.some
    /\ CHOOSE r \in {parsed.ok /\ evaluate(parsed.marker, env) :
                        parsed \in {Marker_parse(dep_req.marker.val)}} : TRUE

marker_skips(dep_req, env) ==
    /\ dep_req.marker.some
    /\ CHOOSE r \in {marker_false(parsed, env) :
                        parsed \in {Marker_parse(dep_req.marker.val)}} : TRUE

\* Mutant: the dependency is noted but never pushed to the queue
lose_dependency(st, owner, dep_str, dep_req) ==
    [st EXCEPT !.trace = Append(@, Event("dep", owner, dep_req, dep_str,
                                         IF dep_req.name \in st.visited
                                         THEN "visited" ELSE "enqueued",
                                         NoPackage))]

\* if !self.visited.contains(&dep_req.name) { queue.push_back(dep_req) }
push_dependency(st, owner, dep_str, dep_req) ==
    IF ~(dep_req.name \in st.visited)
    THEN [st EXCEPT !.queue = Append(@, dep_req),
                    !.trace = Append(@, Event("dep", owner, dep_req, dep_str,
                                              "enqueued", NoPackage))]
    ELSE [st EXCEPT !.trace = Append(@, Event("dep", owner, dep_req, dep_str,
                                              "visited", NoPackage))]

\* The body of the loop over package.requires_dist for one entry
expand_parsed(st, owner, dep_str, pr, env) ==
    IF ~pr.ok
    THEN [st EXCEPT !.trace = Append(@, Event("dep", owner, NoRequirement,
                                     dep_str, "unparseable", NoPackage))]
    ELSE IF marker_skips(pr.req, env)
    THEN [st EXCEPT !.trace = Append(@, Event("dep", owner, pr.req, dep_str,
                                     "marker_false", NoPackage))]
    ELSE push_dependency(st, owner, dep_str, pr.req)

expand_dependency(st, owner, dep_str, env) ==
    CHOOSE r \in {expand_parsed(st, owner, dep_str, pr, env) :
                     pr \in {from_str(dep_str)}} : TRUE

RECURSIVE expand_dependencies(_, _, _, _)
expand_dependencies(st, owner, requires_dist, env) ==
    IF requires_dist = <<>> THEN st
    ELSE CHOOSE r \in
             {expand_dependencies(next, owner, rest, env) :
                 next \in {expand_dependency(st, owner, Head(requires_dist), env)},
                 rest \in {Tail(requires_dist)}} : TRUE

\* Mutant: the error is propagated out of resolve() (as with `?`)
propagate_failed(st, h, outcome) == [st EXCEPT !.failed = TRUE]

\* Err(e) of the task or of the fetch: a warning, the loop goes on
skip_failed(st, h, outcome) ==
    [st EXCEPT !.trace = Append(@, Event("result", h.req_name, NoRequirement,
                                         <<>>, outcome, NoPackage))]

\* Mutant: the requirement's own specs are not checked
ignore_requirement(vc, package, h) == [ok |-> TRUE, vc |-> vc]

\* The version check against the requirement's own specs: [ok, vc]
meets_requirement(vc, package, h) ==
    satisfies_version(vc, package.version, h.specs)

\* Mutant: only the first constraint requirement of the name is checked
first_constraint_only(vc, package, h) ==
    IF h.constraint_reqs.some
    THEN satisfies_version(vc, package.version, Head(h.constraint_reqs.val).specs)
    ELSE [ok |-> TRUE, vc |-> vc]

\* The check against the constraint set: [ok, vc]
meets_constraints(vc, package, h) ==
    IF h.constraint_reqs.some
    THEN satisfies_constraints(vc, package.version, h.constraint_reqs.val)
    ELSE [ok |-> TRUE, vc |-> vc]

\* A package that passed both checks: cached, expanded, pushed to resolved
accept_package(st, h, package, env) ==
    CHOOSE r \in
        {[expand_dependencies(cached, h.req_name, package.requires_dist, env)
          EXCEPT !.resolved = Append(@, package)] :
            cached \in {[st EXCEPT
                            !.cache = Put(@, package.name, package),
                            !.trace = Append(@, Event("result", h.req_name,
                                          NoRequirement, <<>>, "accepted",
                                          package))]}} : TRUE

\* Mutant: a dropped package's name may be fetched again
retry_package(st, h, package, vc, outcome) ==
    [st EXCEPT !.version_cache = vc,
               !.visited = @ \ {h.req_name},
               !.trace = Append(@, Event("result", h.req_name, NoRequirement,
                                         <<>>, outcome, package))]

\* A package that failed a check: a warning, the loop goes on
drop_package(st, h, package, vc, outcome) ==
    [st EXCEPT !.version_cache = vc,
               !.trace = Append(@, Event("result", h.req_name, NoRequirement,
                                         <<>>, outcome, package))]

\* if let Some(constraint_reqs) .. if !satisfies_constraints { continue }
after_constraints(st, h, package, env, sc) ==
    IF ~sc.ok THEN drop_package(st, h, package, sc.vc, "constraint_mismatch")
    ELSE accept_package([st EXCEPT !.version_cache = sc.vc], h, package, env)

\* if !self.satisfies_version(&package.version, &specs) { continue }
after_requirement(st, h, package, env, sv) ==
    IF ~sv.ok THEN drop_package(st, h, package, sv.vc, "spec_mismatch")
    ELSE CHOOSE r \in {after_constraints(st, h, package, env, sc) :
                          sc \in {meets_constraints(sv.vc, package, h)}} : TRUE

\* Ok(package)
process_package(st, h, package, env) ==
    CHOOSE r \in
        {after_requirement(st, h, package, env, sv) :
            sv \in {meets_requirement(st.version_cache, package, h)}} : TRUE

\* The body of `for result in results` for one handle
process_result(st, h, env) ==
    IF h.result.join = "Err" THEN skip_failed(st, h, "task_error")
    ELSE IF h.result.package_result.kind = "Err"
    THEN skip_failed(st, h, "fetch_error")
    ELSE process_package(st, h, h.result.package_result.package, env)

\* join_all keeps the order of the handles: results are applied in batch
\* order
RECURSIVE process_results(_, _, _)
process_results(st, hs, env) ==
    IF hs = <<>> \/ st.failed THEN st
    ELSE CHOOSE r \in {process_results(next, rest, env) :
                          next \in {process_result(st, Head(hs), env)},
                          rest \in {Tail(hs)}} : TRUE

\* ------------------------------------------------------------------------
\* Resolver: operations
\* ------------------------------------------------------------------------
\* How many constraint requirements a run registers at most
MaxConstraints == 2

NoReturn == [status |-> "none", value |-> <<>>]

NoPrev == [valid |-> FALSE, reqs |-> <<>>, value |-> <<>>]

NoCall == [reqs |-> <<>>, visited0 |-> {}]

\* Resolver::with_environment(environment); Resolver::new() is the case of
\* the current environment
InitResolver(worlds, environments) ==
    /\ world \in worlds
    /\ environment \in environments
    /\ cache = EmptyMap
    /\ visited = {}
    /\ constraints = EmptyMap
    /\ version_cache = EmptyMap
    /\ pc = "idle"
    /\ queue = <<>>
    /\ resolved = <<>>
    /\ permits = 0
    /\ handles = <<>>
    /\ ret = NoReturn
    /\ call = NoCall
    /\ fetches = EmptyMap
    /\ trace = <<>>
    /\ prev = NoPrev

\* CandidateSelector::new(strategy)
NewSelector(strategies) ==
    /\ installed_candidates = EmptyMap
    /\ strategy \in strategies

\* DependencyCache::new()
NewDependencyCache ==
    /\ dep_cache = EmptyMap
    /\ hits = 0
    /\ misses = 0

NoLockFile == [some |-> FALSE]

NoDiskCache == [some |-> FALSE]

NoCommand == [cmd |-> "none"]

\* No lock file is held, no file is on the disk, no command is running
NoFiles ==
    /\ lock_file = NoLockFile
    /\ disk = EmptyMap
    /\ modified = EmptyMap
    /\ clock = 0
    /\ disk_cache = NoDiskCache
    /\ command = NoCommand

\* CandidateSelector::default(), DependencyCache::new(), and nothing else
NewComponents ==
    /\ NewSelector({"PreferCompatible"})
    /\ NewDependencyCache
    /\ NoFiles
    /\ log = <<>>

\* No single function call is under check
NoArg == [fn |-> "none"]

NoOut == [fn |-> "none"]

Init ==
    /\ InitResolver({"e2e", "graph", "ring"}, Environments)
    /\ NewComponents
    /\ arg = NoArg
    /\ out = NoOut

\* The history of the last call is kept until the resolver is next touched
ForgetHistory ==
    /\ ret' = NoReturn
    /\ call' = NoCall
    /\ fetches' = EmptyMap
    /\ trace' = <<>>
    /\ prev' = NoPrev

\* The loop of set_constraints: entry(name).or_insert_with(Vec::new).push(req)
RECURSIVE push_constraints(_, _)
push_constraints(cons, reqs) ==
    IF reqs = <<>> THEN cons
    ELSE CHOOSE r \in
             {push_constraints(
                  Put(cons, req.name,
                      Append(IF req.name \in DOMAIN cons
                             THEN cons[req.name] ELSE <<>>, req)),
                  rest) :
                 req \in {Head(reqs)}, rest \in {Tail(reqs)}} : TRUE

RECURSIVE SumLen(_, _)
SumLen(f, keys) ==
    IF keys = {} THEN 0
    ELSE Len(f[CHOOSE x \in keys : TRUE])
         + SumLen(f, keys \ {CHOOSE x \in keys : TRUE})

\* Resolver::set_constraints
SetConstraints(reqs) ==
    /\ pc = "idle"
    /\ SumLen(constraints, DOMAIN constraints) + Len(reqs) <= MaxConstraints
    /\ constraints' = push_constraints(constraints, reqs)
    /\ ForgetHistory
    /\ UNCHANGED <<function_call, components, world, cache, visited, environment, version_cache, pc,
                   queue, resolved, permits, handles>>

\* Resolver::clear_cache
ClearCache ==
    /\ pc = "idle"
    /\ cache' = EmptyMap
    /\ visited' = {}
    /\ ForgetHistory
    /\ UNCHANGED <<function_call, components, world, environment, constraints, version_cache, pc, queue,
                   resolved, permits, handles>>

\* Resolver::resolve -> resolve_concurrent(requirements, 10), up to the
\* outer loop
Resolve(requirements) ==
    /\ pc = "idle"
    /\ pc' = "collect"
    /\ queue' = requirements
    /\ resolved' = <<>>
    /\ permits' = new_semaphore
    /\ handles' = <<>>
    /\ call' = [reqs |-> requirements, visited0 |-> visited]
    /\ fetches' = EmptyMap
    /\ trace' = <<>>
    /\ prev' = IF ret.status = "Ok"
               THEN [valid |-> TRUE, reqs |-> call.reqs, value |-> ret.value]
               ELSE NoPrev
    /\ UNCHANGED <<function_call, components, world, resolver_fields, ret>>

\* Ok(resolved): the function returns and its locals are dropped
return_ok(res) == [status |-> "Ok", value |-> res]

\* One turn of `while !queue.is_empty()` up to join_all: the batch is
\* drained from the queue and its fetch tasks are spawned; with an empty
\* queue or an empty batch the function returns Ok(resolved)
CollectBatchOf(c) ==
    /\ visited' = c.visited
    /\ trace' = c.trace
    /\ IF queue = <<>> \/ c.batch = <<>>
       THEN /\ pc' = "idle"
            /\ ret' = return_ok(resolved)
            /\ queue' = <<>>
            /\ resolved' = <<>>
            /\ permits' = 0
            /\ UNCHANGED handles
       ELSE /\ pc' = "await"
            /\ queue' = c.queue
            /\ handles' = spawn_batch(c.batch, constraints)
            /\ UNCHANGED <<ret, resolved, permits>>

CollectBatch ==
    /\ pc = "collect"
    /\ \E c \in {collect_batch(queue, visited, <<>>, trace)} : CollectBatchOf(c)
    /\ UNCHANGED <<function_call, components, world, cache, environment, constraints, version_cache,
                   call, fetches, prev>>

bump(counts, name) ==
    Put(counts, name, IF name \in DOMAIN counts THEN counts[name] + 1 ELSE 1)

\* A fetch task gets its permit (sem.acquire().await) and starts the fetch
Acquire(i) ==
    /\ pc = "await"
    /\ handles[i].st = "spawned"
    /\ permits > 0
    /\ permits' = permits - 1
    /\ handles' = [handles EXCEPT ![i].st = "fetching"]
    /\ fetches' = bump(fetches, handles[i].name)
    /\ UNCHANGED <<function_call, components, world, resolver_fields, pc, queue, resolved, ret,
                   call, trace, prev>>

\* The fetch of a task ends, with a package, an error or a failed task;
\* the permit is dropped
FetchDone(i) ==
    /\ pc = "await"
    /\ handles[i].st = "fetching"
    /\ handles' = [handles EXCEPT
                      ![i].st = "finished",
                      ![i].at = IF i = 1 /\ \E j \in DOMAIN handles :
                                                handles[j].st = "finished"
                                THEN 2 ELSE 1,
                      ![i].result =
                          join_result(get_package_metadata(world, handles[i].name))]
    /\ permits' = release_permit(permits)
    /\ UNCHANGED <<function_call, components, world, resolver_fields, pc, queue, resolved, ret,
                   call, fetches, trace, prev>>

\* Mutant: the results are taken without waiting for the tasks
none_joined(hs) == TRUE

\* Mutant: the results are taken as soon as one task has finished
any_joined(hs) == \E i \in 1..Len(hs) : hs[i].st = "finished"

\* future::join_all(handles).await
all_joined(hs) == \A i \in 1..Len(hs) : hs[i].st = "finished"

\* Mutant: the result of a first task that finished after another task of
\* the batch is taken last
join_as_completed(hs) ==
    SelectSeq(hs, LAMBDA h : h.at # 2) \o SelectSeq(hs, LAMBDA h : h.at = 2)

\* future::join_all: the outputs come in the order of the handles, also
\* when another task finished before the first one (at = 2)
join_all(hs) == [i \in 1..Len(hs) |-> hs[i]]

\* The results of the batch are written back; an error leaves the function
ApplyResults(st) ==
    /\ cache' = st.cache
    /\ visited' = st.visited
    /\ version_cache' = st.version_cache
    /\ trace' = st.trace
    /\ IF st.failed
       THEN /\ pc' = "idle"
            /\ ret' = [status |-> "Err", value |-> <<>>]
            /\ queue' = <<>>
            /\ resolved' = <<>>
            /\ permits' = 0
       ELSE /\ pc' = "collect"
            /\ queue' = st.queue
            /\ resolved' = st.resolved
            /\ UNCHANGED <<ret, permits>>

\* join_all returns and the results of the batch are applied, in order
ProcessResults ==
    /\ pc = "await"
    /\ all_joined(handles)
    /\ \E st \in {process_results(
                     [cache |-> cache, visited |-> visited,
                      version_cache |-> version_cache, queue |-> queue,
                      resolved |-> resolved, trace |-> trace, failed |-> FALSE],
                     join_all(handles), environment)} : ApplyResults(st)
    /\ handles' = <<>>
    /\ UNCHANGED <<function_call, components, world, environment, constraints, call, fetches, prev>>

Next ==
    \/ \E reqs \in ConstraintLists(world) : SetConstraints(reqs)
    \/ ClearCache
    \/ \E requirements \in Requests(world) : Resolve(requirements)
    \/ CollectBatch
    \/ \E i \in DOMAIN handles : Acquire(i)
    \/ \E i \in DOMAIN handles : FetchDone(i)
    \/ ProcessResults

Spec == Init /\ [][Next]_vars

\* One resolve() call: the steps between the call and its return
CallStep ==
    \/ CollectBatch
    \/ \E i \in DOMAIN handles : Acquire(i)
    \/ \E i \in DOMAIN handles : FetchDone(i)
    \/ ProcessResults

\* resolve() calls on a Resolver that is not reconfigured in between
NextCalls ==
    \/ \E requirements \in Requests(world) : Resolve(requirements)
    \/ CallStep

\* The runtime schedules every spawned task and the driving task, and every
\* fetch comes to an end
FairSpec == Init /\ [][NextCalls]_vars /\ WF_vars(CallStep)

\* A Resolver on the wide world: one list of max_concurrent + 1 names
InitWide ==
    /\ InitResolver({"wide"}, {EnvLinux})
    /\ NewComponents
    /\ arg = NoArg
    /\ out = NoOut

SpecWide == InitWide /\ [][NextCalls]_vars

\* ------------------------------------------------------------------------
\* Resolver::resolve_sequential, the legacy resolution: one task, one
\* package at a time.  The loop state st carries cache, visited,
\* version_cache, queue, resolved and the names fetched from the source.
\* ------------------------------------------------------------------------
SequentialState(q, vis, pkgs, vc, res, fetched) ==
    [queue |-> q, visited |-> vis, cache |-> pkgs, version_cache |-> vc,
     resolved |-> res, fetched |-> fetched]

\* Resolver::get_package: the cached package, or the answer of the source,
\* cached when it is a package
get_package(st, w, name) ==
    IF name \in DOMAIN st.cache
    THEN [answer |-> FetchOk(st.cache[name]), st |-> st]
    ELSE CHOOSE r \in
             {[answer |-> answer,
               st |-> [st EXCEPT !.fetched = @ \cup {name},
                                 !.cache = IF answer.kind = "Ok"
                                           THEN Put(@, name, answer.package)
                                           ELSE @]] :
                 answer \in {get_package_metadata(w, name)}} : TRUE

\* The body of the loop over package.requires_dist for one entry
sequential_dependency(st, pr, env) ==
    IF ~pr.ok THEN st
    ELSE IF marker_skips(pr.req, env) THEN st
    ELSE IF ~(pr.req.name \in st.visited)
         THEN [st EXCEPT !.queue = Append(@, pr.req)]
    ELSE st

RECURSIVE sequential_dependencies(_, _, _)
sequential_dependencies(st, requires_dist, env) ==
    IF requires_dist = <<>> THEN st
    ELSE CHOOSE r \in
             {sequential_dependencies(next, rest, env) :
                 next \in {sequential_dependency(st, pr, env) :
                             pr \in {from_str(Head(requires_dist))}},
                 rest \in {Tail(requires_dist)}} : TRUE

\* The package passed both checks: its dependencies, then resolved.push
sequential_accept(st, package, env) ==
    CHOOSE r \in {[expanded EXCEPT !.resolved = Append(@, package)] :
                    expanded \in {sequential_dependencies(
                                     st, package.requires_dist, env)}} : TRUE

\* if let Some(constraint_reqs) = self.constraints.get(&req.name)
sequential_constraints(st, req, package, cons, env, sc) ==
    IF ~sc.ok THEN [st EXCEPT !.version_cache = sc.vc]
    ELSE sequential_accept([st EXCEPT !.version_cache = sc.vc], package, env)

\* if !self.satisfies_version(&package.version, &req.specs) { continue }
sequential_checked(st, req, package, cons, env, sv) ==
    IF ~sv.ok THEN [st EXCEPT !.version_cache = sv.vc]
    ELSE CHOOSE r \in
             {sequential_constraints(st, req, package, cons, env, sc) :
                 sc \in {IF req.name \in DOMAIN cons
                         THEN satisfies_constraints(sv.vc, package.version,
                                                    cons[req.name])
                         ELSE [ok |-> TRUE, vc |-> sv.vc]}} : TRUE

\* Ok(package)
sequential_package(st, req, package, cons, env) ==
    CHOOSE r \in
        {sequential_checked(st, req, package, cons, env, sv) :
            sv \in {satisfies_version(st.version_cache, package.version,
                                      req.specs)}} : TRUE

SequentialReturn(status, st) ==
    [status |-> status, value |-> st.resolved, fetched |-> st.fetched]

\* Mutant: the queue is served from its back
pop_back(q) == [req |-> q[Len(q)], rest |-> SubSeq(q, 1, Len(q) - 1)]

\* queue.pop_front()
pop_front(q) == [req |-> Head(q), rest |-> Tail(q)]

\* while let Some(req) = queue.pop_front(); a failing fetch ends the call
\* without a return
RECURSIVE resolve_sequential(_, _, _, _)
RECURSIVE sequential_popped(_, _, _, _, _)
RECURSIVE sequential_fetched(_, _, _, _, _)
resolve_sequential(st, cons, env, w) ==
    IF st.queue = <<>> THEN SequentialReturn("Ok", st)
    ELSE CHOOSE r \in {sequential_popped([st EXCEPT !.queue = p.rest], p.req,
                                         cons, env, w) :
                         p \in {pop_front(st.queue)}} : TRUE

sequential_popped(st, req, cons, env, w) ==
    IF req.name \in st.visited THEN resolve_sequential(st, cons, env, w)
    ELSE CHOOSE r \in
             {sequential_fetched(g, req, cons, env, w) :
                 g \in {get_package([st EXCEPT !.visited = @ \cup {req.name}],
                                    w, req.name)}} : TRUE

sequential_fetched(g, req, cons, env, w) ==
    CASE g.answer.kind = "Panic" -> SequentialReturn("Panic", g.st)
      [] g.answer.kind = "Err" -> resolve_sequential(g.st, cons, env, w)
      [] g.answer.kind = "Ok" ->
            CHOOSE r \in
                {resolve_sequential(next, cons, env, w) :
                    next \in {sequential_package(g.st, req, g.answer.package,
                                                 cons, env)}} : TRUE

\* ------------------------------------------------------------------------
\* Single calls of the version check on a new Resolver
\* ------------------------------------------------------------------------
V_empty == <<>>

V_1 == <<"1">>

V_2 == <<"2">>

V_3 == <<"3">>

V_1_9 == <<"1", ".", "9">>

V_1_10 == <<"1", ".", "1", "0">>

V_2_1 == <<"2", ".", "1">>

V_2_0_1 == <<"2", ".", "0", ".", "1">>

V_1_a_5 == <<"1", ".", "a", ".", "5">>

V_1_max == <<"1", ".">> \o U32Max

V_1_over == <<"1", ".", "4", "2", "9", "4", "9", "6", "7", "2", "9", "6">>

V_dot_0 == <<".", "0">>

\* How many ".0" components are appended to a version
MaxZeros == 2

RECURSIVE with_zeros(_, _)
with_zeros(version, k) ==
    IF k = 0 THEN version ELSE with_zeros(version, k - 1) \o V_dot_0

BaseVersions ==
    {V_empty, V_1, V_2, V_3, V_1_2, V_1_9, V_1_10, V_2_1, V_2_0_1, V_1_a_5,
     V_1_max, V_1_over}

VersionInputs == {with_zeros(v, k) : v \in BaseVersions, k \in 0..MaxZeros}

\* enum VersionOp
VersionOp == {"Eq", "NotEq", "Lt", "LtEq", "Gt", "GtEq", "Compatible"}

SpecInputs == {VersionSpec(op, v) : op \in VersionOp, v \in VersionInputs}

\* The longest list of specs handed to satisfies_version
MaxSpecs == 2

ListedVersions == {V_1, V_1_2, V_1_10, V_2_0_1}

ListedSpecs == {VersionSpec(op, v) : op \in VersionOp, v \in {V_1_2, with_zeros(V_2, 1)}}

SpecLists ==
    UNION {[1..n -> ListedSpecs] : n \in 0..MaxSpecs}

VersionCalls ==
    {[fn |-> "check_version_spec", version |-> v, spec |-> s] :
        v \in VersionInputs, s \in SpecInputs}
    \cup {[fn |-> "satisfies_version", version |-> v, specs |-> l] :
        v \in ListedVersions, l \in SpecLists}

\* Resolver::new(), and the arguments of the one call made on it
InitVersion ==
    /\ InitResolver({"e2e"}, {EnvLinux})
    /\ NewComponents
    /\ arg \in VersionCalls
    /\ out = NoOut

Returns(r) ==
    /\ out' = [fn |-> arg.fn, ok |-> r.ok]
    /\ version_cache' = r.vc

CheckVersionSpec ==
    /\ arg.fn = "check_version_spec"
    /\ out = NoOut
    /\ \E r \in {check_version_spec(version_cache, arg.version, arg.spec)} :
           Returns(r)
    /\ UNCHANGED <<arg, components, world, cache, visited, environment, constraints, pc,
                   call_locals, ret, call, fetches, trace, prev>>

SatisfiesVersion ==
    /\ arg.fn = "satisfies_version"
    /\ out = NoOut
    /\ \E r \in {satisfies_version(version_cache, arg.version, arg.specs)} :
           Returns(r)
    /\ UNCHANGED <<arg, components, world, cache, visited, environment, constraints, pc,
                   call_locals, ret, call, fetches, trace, prev>>

NextVersion ==
    \/ CheckVersionSpec
    \/ SatisfiesVersion

SpecVersion == InitVersion /\ [][NextVersion]_vars

\* ------------------------------------------------------------------------
\* Single calls of Requirement::from_str
\* ------------------------------------------------------------------------
\* The names as written and as normalized
NameInputs ==
    {[text |-> S_alpha, normalized |-> S_alpha],
     [text |-> <<"F", "o", "o", "_", "B", "a", "r">>, normalized |-> <<"f", "o", "o", "-", "b", "a", "r">>],
     [text |-> <<"x", "-", "_", "9">>, normalized |-> <<"x", "-", "-", "9">>]}

ExtrasInputs == {<<>>, <<S_a>>, <<S_a, S_b>>, <<S_b, S_a>>}

MarkerInputs ==
    {None, Some(<<>>), Some(<<"o", "s", "_", "n", "a", "m", "e", " ", "=", "=", " ", "'", "n", "t", "'">>),
     Some(<<"a", ";", "b">>)}

\* The most clauses of a requirement
MaxClauses == 2

\* The version text of the i-th clause
VersionAt == <<<<"1", ".", "0">>, <<"2", ".", "*">>, <<"3", "+", "a">>>>

SpecsInputs ==
    UNION {{[i \in 1..n |-> VersionSpec(ops[i], VersionAt[i])] :
               ops \in [1..n -> VersionOp]} : n \in 0..MaxClauses}

OperatorText ==
    [op \in VersionOp |->
        CASE op = "Eq" -> <<"=", "=">>
          [] op = "NotEq" -> <<"!", "=">>
          [] op = "Lt" -> <<"<">>
          [] op = "LtEq" -> <<"<", "=">>
          [] op = "Gt" -> <<">">>
          [] op = "GtEq" -> <<">", "=">>
          [] op = "Compatible" -> <<"~", "=">>]

RECURSIVE Join(_, _)
Join(texts, sep) ==
    IF texts = <<>> THEN <<>>
    ELSE IF Len(texts) = 1 THEN texts[1]
    ELSE texts[1] \o sep \o Join(Tail(texts), sep)

Blank(spaced) == IF spaced THEN <<" ">> ELSE <<>>

ClauseTexts(specs, spaced) ==
    [i \in 1..Len(specs) |->
        OperatorText[specs[i].op] \o Blank(spaced) \o specs[i].version]

\* name[extras]specs;marker, written without blanks or with blanks where
\* the format allows them
BuildRequirement(name, extras, specs, marker, spaced) ==
    name
    \o (IF extras = <<>> THEN <<>>
        ELSE <<"[">> \o Join(extras, <<",">> \o Blank(spaced)) \o <<"]">>)
    \o Blank(spaced)
    \o Join(ClauseTexts(specs, spaced), Blank(spaced) \o <<",">> \o Blank(spaced))
    \o (IF marker.some
        THEN Blank(spaced) \o <<";">> \o Blank(spaced) \o marker.val \o Blank(spaced)
        ELSE <<>>)

BuiltCalls ==
    {[fn |-> "from_str", kind |-> "built",
      s |-> BuildRequirement(n.text, e, sp, m, b),
      name |-> n, extras |-> e, specs |-> sp, marker |-> m] :
        n \in NameInputs, e \in ExtrasInputs, sp \in SpecsInputs,
        m \in MarkerInputs, b \in BOOLEAN}

\* Clauses as written, well formed and not
ClauseInputs ==
    {<<"=", "=", "1">>, <<"!", "=", "1">>, <<"<", "=", "1">>, <<">", "=", "1">>,
     <<"<", "1">>, <<">", "1">>, <<"~", "=", "1">>,
     <<"=", "1">>, <<"1">>, <<">", "=">>, <<"<">>,
     <<"~", "1">>, <<"=", ">", "1">>, <<"!", "1">>}

ClauseLists == UNION {[1..n -> ClauseInputs] : n \in 0..MaxClauses}

ClauseCalls ==
    {[fn |-> "from_str", kind |-> "clauses",
      s |-> S_alpha \o <<" ">> \o Join(l, <<",">>), clauses |-> l] :
        l \in ClauseLists}

InitParse ==
    /\ InitResolver({"e2e"}, {EnvLinux})
    /\ NewComponents
    /\ arg \in BuiltCalls \cup ClauseCalls
    /\ out = NoOut

\* s.parse::<Requirement>()
FromStr ==
    /\ arg.fn = "from_str"
    /\ out = NoOut
    /\ \E r \in {from_str(arg.s)} : out' = [fn |-> arg.fn, ok |-> r.ok, req |-> r.req]
    /\ UNCHANGED <<arg, components, world, resolver_fields, pc, call_locals, ret, call,
                   fetches, trace, prev>>

NextParse == FromStr

SpecParse == InitParse /\ [][NextParse]_vars

\* ------------------------------------------------------------------------
\* Single evaluations of a marker, as resolve_concurrent does them
\* ------------------------------------------------------------------------
C_linux == <<"s", "y", "s", "_", "p", "l", "a", "t", "f", "o", "r", "m", " ", "=", "=", " ", "'", "l", "i", "n", "u", "x", "'">>

C_always == <<"p", "y", "t", "h", "o", "n", "_", "v", "e", "r", "s", "i", "o", "n", " ", ">", "=", " ", "'", "3", ".", "8", "'">>

C_never == <<"p", "y", "t", "h", "o", "n", "_", "v", "e", "r", "s", "i", "o", "n", " ", "<", " ", "'", "3", ".", "8", "'">>

C_posix_parens == <<"(", "o", "s", "_", "n", "a", "m", "e", " ", "=", "=", " ", "'", "p", "o", "s", "i", "x", "'", ")">>

C_open_paren == <<"(", "p", "y", "t", "h", "o", "n", "_", "v", "e", "r", "s", "i", "o", "n", " ", ">", "=", " ", "'", "3", ".", "8", "'">>

C_close_paren == <<"p", "y", "t", "h", "o", "n", "_", "v", "e", "r", "s", "i", "o", "n", " ", ">", "=", " ", "'", "3", ".", "8", "'", ")">>

\* Conditions as written, and when each holds: on the linux environment, on
\* every environment or on none
ConditionInputs ==
    {[text |-> C_linux, when |-> "linux"],
     [text |-> C_always, when |-> "always"],
     [text |-> C_never, when |-> "never"],
     [text |-> C_posix_parens, when |-> "linux"],
     [text |-> C_open_paren, when |-> "never"],
     [text |-> C_close_paren, when |-> "always"]}

\* The most conditions of an expression
MaxConditions == 3

Connectives == {"or", "and"}

ConnectiveText == [c \in Connectives |-> IF c = "or" THEN <<" ", "o", "r", " ">> ELSE <<" ", "a", "n", "d", " ">>]

RECURSIVE BuildExpression(_, _)
BuildExpression(conds, conns) ==
    IF conds = <<>> THEN <<>>
    ELSE IF conns = <<>> THEN conds[1].text
    ELSE conds[1].text \o ConnectiveText[conns[1]]
         \o BuildExpression(Tail(conds), Tail(conns))

ExpressionCalls ==
    UNION {{[fn |-> "evaluate", kind |-> "expression",
             expr |-> BuildExpression(conds, conns),
             conds |-> conds, conns |-> conns] :
               conds \in [1..n -> ConditionInputs],
               conns \in [1..(n - 1) -> Connectives]} : n \in 1..MaxConditions}

V_python_version == <<"p", "y", "t", "h", "o", "n", "_", "v", "e", "r", "s", "i", "o", "n">>

V_platform == <<"p", "l", "a", "t", "f", "o", "r", "m">>

V_sys_platform == <<"s", "y", "s", "_", "p", "l", "a", "t", "f", "o", "r", "m">>

V_implementation_name == <<"i", "m", "p", "l", "e", "m", "e", "n", "t", "a", "t", "i", "o", "n", "_", "n", "a", "m", "e">>

V_platform_machine == <<"p", "l", "a", "t", "f", "o", "r", "m", "_", "m", "a", "c", "h", "i", "n", "e">>

V_os_name == <<"o", "s", "_", "n", "a", "m", "e">>

V_extra == <<"e", "x", "t", "r", "a">>

V_foo == <<"f", "o", "o">>

VariableInputs ==
    {V_python_version, V_platform, V_sys_platform, V_implementation_name,
     V_platform_machine, V_os_name, V_extra, V_foo}

\* enum MarkerOp, the comparison operators
MarkerOpText ==
    [Eq |-> <<"=", "=">>, NotEq |-> <<"!", "=">>, GtEq |-> <<">", "=">>,
     LtEq |-> <<"<", "=">>, Gt |-> <<">">>, Lt |-> <<"<">>]

LiteralInputs ==
    {<<>>, S_linux, S_win32, S_posix, S_nt, S_3_11, V_1_0, S_cpython, S_x86_64,
     <<"a", "b", "c">>}

\* variable op 'literal'
ConditionCalls ==
    {[fn |-> "evaluate", kind |-> "condition",
      expr |-> v \o <<" ">> \o MarkerOpText[op] \o <<" ", "'">> \o l \o <<"'">>,
      variable |-> v, op |-> op, literal |-> l] :
        v \in VariableInputs, op \in DOMAIN MarkerOpText, l \in LiteralInputs}

\* A marker of a dependency with nothing after the ';'
EmptyCalls == {[fn |-> "evaluate", kind |-> "empty", expr |-> <<" ">>]}

InitMarker ==
    /\ InitResolver({"e2e"}, Environments)
    /\ NewComponents
    /\ arg \in ExpressionCalls \cup ConditionCalls \cup EmptyCalls
    /\ out = NoOut

\* Marker::parse(marker_str), and marker.evaluate(&self.environment) if Ok
EvaluateMarker ==
    /\ arg.fn = "evaluate"
    /\ out = NoOut
    /\ \E p \in {Marker_parse(arg.expr)} :
           out' = [fn |-> arg.fn, parsed |-> p.ok,
                   value |-> p.ok /\ evaluate(p.marker, environment)]
    /\ UNCHANGED <<arg, components, world, resolver_fields, pc, call_locals, ret, call,
                   fetches, trace, prev>>

NextMarker == EvaluateMarker

SpecMarker == InitMarker /\ [][NextMarker]_vars

\* ------------------------------------------------------------------------
\* CandidateSelector (resolver/candidate_selector.rs)
\* ------------------------------------------------------------------------
Candidate(package, is_installed, is_editable, link_url) ==
    [package |-> package, is_installed |-> is_installed,
     is_editable |-> is_editable, link_url |-> link_url]

\* enum SelectionStrategy
SelectionStrategy == {"PreferInstalled", "PreferLatest", "PreferCompatible"}

\* format!("{}=={}", package_name.to_lowercase(), version)
selector_key(package_name, version) ==
    to_lowercase(package_name) \o <<"=", "=">> \o version

\* CandidateSelector::register_installed: the map after the call
register_installed(ic, package, is_editable) ==
    Put(ic, selector_key(package.name, package.version),
        Candidate(package, TRUE, is_editable, None))

\* The link of the query is not looked at
link_ignored(link_url, installed_link) == TRUE

\* The match on (link_url, &installed.link_url)
link_matches(link_url, installed_link) ==
    CASE ~link_url.some /\ ~installed_link.some -> TRUE
      [] link_url.some /\ installed_link.some -> link_url.val = installed_link.val
      [] OTHER -> FALSE

reuse_with_key(ic, key, link_url, is_editable) ==
    IF key \in DOMAIN ic
    THEN link_matches(link_url, ic[key].link_url)
         /\ is_editable = ic[key].is_editable
    ELSE FALSE

\* CandidateSelector::can_reuse_installed
can_reuse_installed(ic, package_name, version, link_url, is_editable) ==
    CHOOSE r \in {reuse_with_key(ic, key, link_url, is_editable) :
                     key \in {selector_key(package_name, version)}} : TRUE

\* The bytes of the characters of the versions
ByteOf ==
    [c \in Digits \cup {"."} |-> IF c = "." THEN 46 ELSE 48 + DigitVal[c]]

\* <String as Ord>::cmp: the ordering of the bytes, a prefix first
RECURSIVE str_cmp(_, _)
str_cmp(a, b) ==
    IF a = <<>> \/ b = <<>>
    THEN (IF a # <<>> THEN 1 ELSE IF b # <<>> THEN -1 ELSE 0)
    ELSE IF ByteOf[Head(a)] < ByteOf[Head(b)] THEN -1
    ELSE IF ByteOf[Head(a)] > ByteOf[Head(b)] THEN 1
    ELSE str_cmp(Tail(a), Tail(b))

\* Iterator::max_by over candidates[i..], best the maximum so far: the later
\* of two equal candidates is kept
RECURSIVE max_by_version(_, _, _)
max_by_version(candidates, i, best) ==
    IF i > Len(candidates) THEN best
    ELSE max_by_version(candidates, i + 1,
            IF str_cmp(best.package.version, candidates[i].package.version) > 0
            THEN best ELSE candidates[i])

\* candidates.iter().find(|c| c.is_installed)
find_installed(candidates) ==
    IF \E i \in 1..Len(candidates) : candidates[i].is_installed
    THEN Some(candidates[CHOOSE i \in 1..Len(candidates) :
                            /\ candidates[i].is_installed
                            /\ \A j \in 1..(i - 1) : ~candidates[j].is_installed])
    ELSE None

or_else(found, other) == IF found.some THEN found ELSE other

\* The first candidate, installed or not
prefer_first(candidates) == Some(candidates[1])

\* The arm SelectionStrategy::PreferInstalled
prefer_installed(candidates) ==
    or_else(find_installed(candidates), Some(candidates[1]))

\* The arm SelectionStrategy::PreferLatest
prefer_latest(candidates) ==
    Some(max_by_version(candidates, 2, candidates[1]))

\* The latest candidate, installed or not
compatible_latest_only(candidates) ==
    Some(max_by_version(candidates, 2, candidates[1]))

\* The arm SelectionStrategy::PreferCompatible
prefer_compatible(candidates) ==
    or_else(find_installed(candidates),
            Some(max_by_version(candidates, 2, candidates[1])))

\* CandidateSelector::select_best
select_best(s, candidates) ==
    IF candidates = <<>> THEN None
    ELSE CASE s = "PreferInstalled" -> prefer_installed(candidates)
           [] s = "PreferLatest" -> prefer_latest(candidates)
           [] s = "PreferCompatible" -> prefer_compatible(candidates)

S_pkg == <<"p", "k", "g">>

S_Pkg == <<"P", "k", "g">>

V_2_0 == <<"2", ".", "0">>

V_9_0 == <<"9", ".", "0">>

V_10_0 == <<"1", "0", ".", "0">>

S_url == <<"u">>

\* The most calls that change a selector or a cache
MaxCalls == 3

RegisterInputs ==
    {[op |-> "register", name |-> n, version |-> v, is_editable |-> e] :
        n \in {S_pkg, S_a}, v \in {V_1_0, V_2_0}, e \in BOOLEAN}

ReuseInputs ==
    {[fn |-> "can_reuse_installed", package_name |-> n, version |-> v,
      link_url |-> l, is_editable |-> e] :
        n \in {S_pkg, S_Pkg, S_a}, v \in {V_1_0, V_2_0}, l \in {None, Some(S_url)},
        e \in BOOLEAN}

InitSelector ==
    /\ InitResolver({"e2e"}, {EnvLinux})
    /\ NewSelector(SelectionStrategy)
    /\ NewDependencyCache
    /\ NoFiles
    /\ log = <<>>
    /\ arg = NoArg
    /\ out = NoOut

\* What a call on the selector leaves alone
selector_frame ==
    <<strategy, dependency_cache_fields, lock_file, disk, cache_files, command, world,
      resolver_fields, pc, call_locals, ret, call, fetches, trace, prev>>

RegisterInstalled(r) ==
    /\ Len(log) < MaxCalls
    /\ installed_candidates' =
           register_installed(installed_candidates,
                              Package(r.name, r.version, <<>>), r.is_editable)
    /\ log' = Append(log, r)
    /\ arg' = NoArg
    /\ out' = NoOut
    /\ UNCHANGED selector_frame

ClearInstalled ==
    /\ Len(log) < MaxCalls
    /\ installed_candidates' = EmptyMap
    /\ log' = Append(log, [op |-> "clear"])
    /\ arg' = NoArg
    /\ out' = NoOut
    /\ UNCHANGED selector_frame

CanReuseInstalled(query) ==
    /\ out = NoOut
    /\ arg' = query
    /\ out' = [fn |-> query.fn,
               ok |-> can_reuse_installed(installed_candidates,
                          query.package_name, query.version, query.link_url,
                          query.is_editable)]
    /\ UNCHANGED <<installed_candidates, log, selector_frame>>

NextSelector ==
    \/ \E r \in RegisterInputs : RegisterInstalled(r)
    \/ ClearInstalled
    \/ \E query \in ReuseInputs : CanReuseInstalled(query)

SpecSelector == InitSelector /\ [][NextSelector]_vars

\* The most candidates handed to select_best
MaxCandidates == 3

CandidateInputs ==
    {Candidate(Package(S_pkg, v, <<>>), i, FALSE, None) :
        v \in {V_2_0, with_zeros(V_2, 2), V_9_0, V_10_0}, i \in BOOLEAN}

CandidateLists == UNION {[1..n -> CandidateInputs] : n \in 0..MaxCandidates}

InitSelect ==
    /\ InitResolver({"e2e"}, {EnvLinux})
    /\ NewSelector(SelectionStrategy)
    /\ NewDependencyCache
    /\ NoFiles
    /\ log = <<>>
    /\ arg \in {[fn |-> "select_best", candidates |-> l] : l \in CandidateLists}
    /\ out = NoOut

SelectBest ==
    /\ arg.fn = "select_best"
    /\ out = NoOut
    /\ out' = [fn |-> arg.fn, best |-> select_best(strategy, arg.candidates)]
    /\ UNCHANGED <<arg, components, world, resolver_fields, pc, call_locals,
                   ret, call, fetches, trace, prev>>

NextSelect == SelectBest

SpecSelect == InitSelect /\ [][NextSelect]_vars

\* ------------------------------------------------------------------------
\* DependencyCache (resolver/dependency_cache.rs)
\* ------------------------------------------------------------------------
CachedDependencies(package_name, version, dependencies, extras) ==
    [package_name |-> package_name, version |-> version,
     dependencies |-> dependencies, extras |-> extras]

\* DependencyCache::cache_key
cache_key(package_name, version) ==
    to_lowercase(package_name) \o <<"=", "=">> \o version

\* A get that counts nothing when the key is absent
get_miss_uncounted(entries, h, m, package_name, version) ==
    IF cache_key(package_name, version) \in DOMAIN entries
    THEN [hits |-> h + 1, misses |-> m,
          result |-> Some(entries[cache_key(package_name, version)])]
    ELSE [hits |-> h, misses |-> m, result |-> None]

get_with_key(entries, h, m, key) ==
    IF key \in DOMAIN entries
    THEN [hits |-> h + 1, misses |-> m, result |-> Some(entries[key])]
    ELSE [hits |-> h, misses |-> m + 1, result |-> None]

\* DependencyCache::get: the counters after the call and the return value
get(entries, h, m, package_name, version) ==
    CHOOSE r \in {get_with_key(entries, h, m, key) :
                     key \in {cache_key(package_name, version)}} : TRUE

\* A set under the name as it is written
set_as_written(entries, package_name, version, dependencies, extras) ==
    Put(entries, package_name \o <<"=", "=">> \o version,
        CachedDependencies(package_name, version, dependencies, extras))

\* DependencyCache::set: the map after the call
set(entries, package_name, version, dependencies, extras) ==
    Put(entries, cache_key(package_name, version),
        CachedDependencies(package_name, version, dependencies, extras))

RECURSIVE gcd(_, _)
gcd(a, b) == IF b = 0 THEN a ELSE gcd(b, a % b)

\* A ratio in lowest terms
Ratio(num, den) ==
    [num |-> num \div gcd(num, den), den |-> den \div gcd(num, den)]

\* (self.hits as f64 / total as f64) * 100.0, as the exact ratio
hit_rate(h, total) == IF total > 0 THEN Ratio(h * 100, total) ELSE Ratio(0, 1)

\* DependencyCache::stats
stats(entries, h, m) ==
    [hits |-> h, misses |-> m, total |-> h + m, hit_rate |-> hit_rate(h, h + m),
     size |-> Cardinality(DOMAIN entries)]

GetInputs ==
    {[op |-> "get", package_name |-> n, version |-> v] :
        n \in {S_pkg, S_Pkg, S_a}, v \in {V_1_0, V_2_0}}

SetInputs ==
    {[op |-> "set", package_name |-> n, version |-> v, dependencies |-> d,
      extras |-> <<>>] :
        n \in {S_pkg, S_Pkg, S_a}, v \in {V_1_0, V_2_0},
        d \in {<<>>, <<Requirement(S_b, <<>>, <<>>, None)>>}}

InitDepCache ==
    /\ InitResolver({"e2e"}, {EnvLinux})
    /\ NewSelector({"PreferCompatible"})
    /\ NewDependencyCache
    /\ NoFiles
    /\ log = <<>>
    /\ arg = NoArg
    /\ out = NoOut

\* What a call on the cache leaves alone
dependency_cache_frame ==
    <<selector_fields, lock_file, disk, cache_files, command, world, resolver_fields, pc,
      call_locals, ret, call, fetches, trace, prev>>

GetReturns(query, r) ==
    /\ hits' = r.hits
    /\ misses' = r.misses
    /\ out' = [fn |-> "get", result |-> r.result]
    /\ arg' = query
    /\ log' = Append(log, query)
    /\ UNCHANGED <<dep_cache, dependency_cache_frame>>

Get(query) ==
    /\ Len(log) < MaxCalls
    /\ \E r \in {get(dep_cache, hits, misses, query.package_name,
                      query.version)} : GetReturns(query, r)

Set(s) ==
    /\ Len(log) < MaxCalls
    /\ dep_cache' = set(dep_cache, s.package_name, s.version, s.dependencies,
                        s.extras)
    /\ out' = [fn |-> "set"]
    /\ arg' = s
    /\ log' = Append(log, s)
    /\ UNCHANGED <<hits, misses, dependency_cache_frame>>

Clear ==
    /\ Len(log) < MaxCalls
    /\ dep_cache' = EmptyMap
    /\ hits' = 0
    /\ misses' = 0
    /\ out' = [fn |-> "clear"]
    /\ arg' = NoArg
    /\ log' = Append(log, [op |-> "clear"])
    /\ UNCHANGED dependency_cache_frame

Stats ==
    /\ out' = [fn |-> "stats", stats |-> stats(dep_cache, hits, misses)]
    /\ arg' = NoArg
    /\ UNCHANGED <<dependency_cache_fields, log, dependency_cache_frame>>

NextDepCache ==
    \/ \E query \in GetInputs : Get(query)
    \/ \E s \in SetInputs : Set(s)
    \/ Clear
    \/ Stats

SpecDepCache == InitDepCache /\ [][NextDepCache]_vars

\* ------------------------------------------------------------------------
\* LockFile (resolver/lockfile.rs)
\* ------------------------------------------------------------------------
\* models::Package with the fields from_packages reads
ResolvedPackage(name, version, summary, requires_dist) ==
    [name |-> name, version |-> version, summary |-> summary,
     requires_dist |-> requires_dist]

LockedPackage(name, version, summary, dependencies, hash, url) ==
    [name |-> name, version |-> version, summary |-> summary,
     dependencies |-> dependencies, hash |-> hash, url |-> url]

LockFile(version, generated_at, python_version, packages) ==
    [version |-> version, generated_at |-> generated_at,
     python_version |-> python_version, packages |-> packages]

\* A key of the name only
lock_key_name_only(name, version) == name

\* format!("{}-{}", pkg.name, pkg.version)
lock_key(name, version) == name \o <<"-">> \o version

\* The loop of from_packages over packages[i..]
RECURSIVE locked_packages(_, _, _)
locked_packages(packages, i, locked) ==
    IF i > Len(packages) THEN locked
    ELSE locked_packages(packages, i + 1,
            Put(locked, lock_key(packages[i].name, packages[i].version),
                LockedPackage(packages[i].name, packages[i].version,
                              packages[i].summary, packages[i].requires_dist,
                              None, None)))

S_lock_version == <<"1", ".", "0">>

\* LockFile::from_packages; now is chrono::Local::now().to_rfc3339()
from_packages(packages, python_version, now) ==
    LockFile(S_lock_version, now, python_version,
             locked_packages(packages, 1, EmptyMap))

Ok == [ok |-> TRUE]

Err(error) == [ok |-> FALSE, error |-> error]

\* A validate that takes every version
validate_any_version(lf) ==
    IF DOMAIN lf.packages = {} THEN Err("Lock file contains no packages")
    ELSE Ok

\* LockFile::validate
validate(lf) ==
    IF lf.version # S_lock_version THEN Err("Unsupported lock file version")
    ELSE IF DOMAIN lf.packages = {} THEN Err("Lock file contains no packages")
    ELSE Ok

\* The JSON text, as its tokens: the punctuation, null, and the strings
\* with their characters escaped
Tok(t) == [t |-> t, s |-> <<>>]

RECURSIVE escape(_)
escape(s) ==
    IF s = <<>> THEN <<>>
    ELSE (IF Head(s) \in {"\"", "\\"} THEN <<"\\", Head(s)>> ELSE <<Head(s)>>)
         \o escape(Tail(s))

\* A string written as it is
Raw(s) == [t |-> "str", s |-> s]

\* serde_json: a string
Str(s) == [t |-> "str", s |-> escape(s)]

\* serde_json: an Option<String>
ser_option(o) == IF o.some THEN <<Str(o.val)>> ELSE <<Tok("null")>>

RECURSIVE ser_strings(_, _)
ser_strings(l, i) ==
    IF i > Len(l) THEN <<>>
    ELSE (IF i > 1 THEN <<Tok(",")>> ELSE <<>>) \o <<Str(l[i])>>
         \o ser_strings(l, i + 1)

\* serde_json: a Vec<String>
ser_vec(l) == <<Tok("[")>> \o ser_strings(l, 1) \o <<Tok("]")>>

F_name == <<"n", "a", "m", "e">>

F_version == <<"v", "e", "r", "s", "i", "o", "n">>

F_summary == <<"s", "u", "m", "m", "a", "r", "y">>

F_dependencies == <<"d", "e", "p", "e", "n", "d", "e", "n", "c", "i", "e", "s">>

F_hash == <<"h", "a", "s", "h">>

F_url == <<"u", "r", "l">>

F_generated_at == <<"g", "e", "n", "e", "r", "a", "t", "e", "d", "_", "a", "t">>

F_python_version == <<"p", "y", "t", "h", "o", "n", "_", "v", "e", "r", "s", "i", "o", "n">>

F_packages == <<"p", "a", "c", "k", "a", "g", "e", "s">>

Field(name, value) == <<Str(name), Tok(":")>> \o value

\* #[derive(Serialize)] struct LockedPackage
ser_locked_package(p) ==
    <<Tok("{")>>
    \o Field(F_name, <<Str(p.name)>>) \o <<Tok(",")>>
    \o Field(F_version, <<Str(p.version)>>) \o <<Tok(",")>>
    \o Field(F_summary, ser_option(p.summary)) \o <<Tok(",")>>
    \o Field(F_dependencies, ser_vec(p.dependencies)) \o <<Tok(",")>>
    \o Field(F_hash, ser_option(p.hash)) \o <<Tok(",")>>
    \o Field(F_url, ser_option(p.url))
    \o <<Tok("}")>>

\* serde_json: the HashMap, its keys in the order the map iterates
RECURSIVE ser_entries(_, _, _)
ser_entries(packages, order, i) ==
    IF i > Len(order) THEN <<>>
    ELSE (IF i > 1 THEN <<Tok(",")>> ELSE <<>>)
         \o Field(order[i], ser_locked_package(packages[order[i]]))
         \o ser_entries(packages, order, i + 1)

ser_map(packages, order) ==
    <<Tok("{")>> \o ser_entries(packages, order, 1) \o <<Tok("}")>>

\* serde_json::to_string_pretty(self) on a LockFile
to_string_pretty(lf, order) ==
    <<Tok("{")>>
    \o Field(F_version, <<Str(lf.version)>>) \o <<Tok(",")>>
    \o Field(F_generated_at, <<Str(lf.generated_at)>>) \o <<Tok(",")>>
    \o Field(F_python_version, <<Str(lf.python_version)>>) \o <<Tok(",")>>
    \o Field(F_packages, ser_map(lf.packages, order))
    \o <<Tok("}")>>

\* The orders a HashMap may iterate its keys in
Orders(keys) ==
    {o \in [1..Cardinality(keys) -> keys] :
        \A i, j \in 1..Cardinality(keys) : o[i] = o[j] => i = j}

\* The JSON values serde_json reads
VNull == [k |-> "null", v |-> <<>>]

VStr(s) == [k |-> "str", v |-> s]

VArr(elements) == [k |-> "arr", v |-> elements]

VObj(members) == [k |-> "obj", v |-> members]

Member(key, value) == [key |-> key, value |-> value]

Fail == [ok |-> FALSE, val |-> VNull, next |-> 0]

Parsed(val, next) == [ok |-> TRUE, val |-> val, next |-> next]

\* serde_json: the characters of a string token from position i on
RECURSIVE unescape(_, _, _)
unescape(e, i, acc) ==
    IF i > Len(e) THEN Parsed(acc, 0)
    ELSE IF e[i] = "\\"
         THEN IF i + 1 <= Len(e) /\ e[i + 1] \in {"\"", "\\"}
              THEN unescape(e, i + 2, Append(acc, e[i + 1]))
              ELSE Fail
    ELSE IF e[i] = "\"" THEN Fail
    ELSE unescape(e, i + 1, Append(acc, e[i]))

string_value(r, next) == IF r.ok THEN Parsed(VStr(r.val), next) ELSE Fail

IsTok(toks, i, t) == i <= Len(toks) /\ toks[i].t = t

\* serde_json: one value at position i of the text
RECURSIVE parse_value(_, _)
RECURSIVE parse_elements(_, _, _)
RECURSIVE after_element(_, _, _)
RECURSIVE parse_members(_, _, _)
RECURSIVE after_member(_, _, _, _)
parse_value(toks, i) ==
    IF i > Len(toks) THEN Fail
    ELSE CASE toks[i].t = "str" ->
                string_value(unescape(toks[i].s, 1, <<>>), i + 1)
           [] toks[i].t = "null" -> Parsed(VNull, i + 1)
           [] toks[i].t = "[" ->
                IF IsTok(toks, i + 1, "]") THEN Parsed(VArr(<<>>), i + 2)
                ELSE parse_elements(toks, i + 1, <<>>)
           [] toks[i].t = "{" ->
                IF IsTok(toks, i + 1, "}") THEN Parsed(VObj(<<>>), i + 2)
                ELSE parse_members(toks, i + 1, <<>>)
           [] OTHER -> Fail

parse_elements(toks, i, acc) ==
    CHOOSE res \in {after_element(toks, r, acc) : r \in {parse_value(toks, i)}} :
        TRUE

after_element(toks, r, acc) ==
    IF ~r.ok THEN Fail
    ELSE IF IsTok(toks, r.next, ",")
         THEN parse_elements(toks, r.next + 1, Append(acc, r.val))
    ELSE IF IsTok(toks, r.next, "]")
         THEN Parsed(VArr(Append(acc, r.val)), r.next + 1)
    ELSE Fail

parse_members(toks, i, acc) ==
    IF IsTok(toks, i, "str") /\ IsTok(toks, i + 1, ":")
    THEN CHOOSE res \in {after_member(toks, key, r, acc) :
                            key \in {unescape(toks[i].s, 1, <<>>)},
                            r \in {parse_value(toks, i + 2)}} : TRUE
    ELSE Fail

after_member(toks, key, r, acc) ==
    IF ~key.ok \/ ~r.ok THEN Fail
    ELSE IF IsTok(toks, r.next, ",")
         THEN parse_members(toks, r.next + 1, Append(acc, Member(key.val, r.val)))
    ELSE IF IsTok(toks, r.next, "}")
         THEN Parsed(VObj(Append(acc, Member(key.val, r.val))), r.next + 1)
    ELSE Fail

\* The members of an object that have the name
Named(obj, name) == {i \in 1..Len(obj.v) : obj.v[i].key = name}

The(S) == CHOOSE i \in S : TRUE

\* #[derive(Deserialize)]: a String field: there once, and a string
has_string(obj, name) ==
    /\ Cardinality(Named(obj, name)) = 1
    /\ obj.v[The(Named(obj, name))].value.k = "str"

string_of(obj, name) == obj.v[The(Named(obj, name))].value.v

\* #[derive(Deserialize)]: an Option<String> field: missing, null or a
\* string, and not twice
has_option(obj, name) ==
    /\ Cardinality(Named(obj, name)) <= 1
    /\ \A i \in Named(obj, name) : obj.v[i].value.k \in {"null", "str"}

option_of(obj, name) ==
    IF \E i \in Named(obj, name) : obj.v[i].value.k = "str"
    THEN Some(string_of(obj, name))
    ELSE None

\* #[derive(Deserialize)]: a Vec<String> field
has_vec(obj, name) ==
    /\ Cardinality(Named(obj, name)) = 1
    /\ obj.v[The(Named(obj, name))].value.k = "arr"
    /\ \A j \in 1..Len(obj.v[The(Named(obj, name))].value.v) :
          obj.v[The(Named(obj, name))].value.v[j].k = "str"

vec_of(obj, name) ==
    [j \in 1..Len(obj.v[The(Named(obj, name))].value.v) |->
        obj.v[The(Named(obj, name))].value.v[j].v]

\* #[derive(Deserialize)] struct LockedPackage
is_locked_package(v) ==
    /\ v.k = "obj"
    /\ has_string(v, F_name)
    /\ has_string(v, F_version)
    /\ has_option(v, F_summary)
    /\ has_vec(v, F_dependencies)
    /\ has_option(v, F_hash)
    /\ has_option(v, F_url)

as_locked_package(v) ==
    LockedPackage(string_of(v, F_name), string_of(v, F_version),
                  option_of(v, F_summary), vec_of(v, F_dependencies),
                  option_of(v, F_hash), option_of(v, F_url))

\* serde: HashMap<String, LockedPackage> from the members in their order
RECURSIVE as_packages(_, _, _)
as_packages(members, i, acc) ==
    IF i > Len(members) THEN acc
    ELSE as_packages(members, i + 1,
            Put(acc, members[i].key, as_locked_package(members[i].value)))

has_packages(obj, name) ==
    /\ Cardinality(Named(obj, name)) = 1
    /\ obj.v[The(Named(obj, name))].value.k = "obj"
    /\ \A j \in 1..Len(obj.v[The(Named(obj, name))].value.v) :
          is_locked_package(obj.v[The(Named(obj, name))].value.v[j].value)

\* #[derive(Deserialize)] struct LockFile
is_lock_file(v) ==
    /\ v.k = "obj"
    /\ has_string(v, F_version)
    /\ has_string(v, F_generated_at)
    /\ has_string(v, F_python_version)
    /\ has_packages(v, F_packages)

as_lock_file(v) ==
    LockFile(string_of(v, F_version), string_of(v, F_generated_at),
             string_of(v, F_python_version),
             as_packages(v.v[The(Named(v, F_packages))].value.v, 1, EmptyMap))

whole_text(toks, r) ==
    IF r.ok /\ r.next = Len(toks) + 1 /\ is_lock_file(r.val)
    THEN [ok |-> TRUE, val |-> as_lock_file(r.val)]
    ELSE [ok |-> FALSE, val |-> "invalid JSON"]

\* serde_json::from_str::<LockFile>(&contents)
lock_file_from_str(toks) ==
    CHOOSE res \in {whole_text(toks, r) : r \in {parse_value(toks, 1)}} : TRUE

S_3_12 == <<"3", ".", "1", "2">>

\* chrono::Local::now().to_rfc3339() at the call of from_packages
T_now == <<"2", "0", "2", "4", "-", "0", "1", "-", "0", "1", "T", "0", "0", ":", "0", "0", ":", "0", "0", "+", "0", "0", ":", "0", "0">>

P_a == ResolvedPackage(S_a, <<"1", "-", "0">>, None, <<>>)

P_a_1 == ResolvedPackage(<<"a", "-", "1">>, <<"0">>, Some(<<"s", "\"", "\\">>), <<<<"b", ">", "=", "1">>>>)

P_B == ResolvedPackage(<<"B">>, <<"1">>, Some(<<"x">>), <<S_a, <<"c">>>>)

\* The most packages handed to from_packages
MaxPackages == 2

PackageLists == UNION {[1..n -> {P_a, P_a_1, P_B}] : n \in 0..MaxPackages}

\* A lock file a caller wrote by hand, of another format version
HandWritten ==
    LockFile(<<"2", ".", "0">>, <<"t", "h", "e", "n">>, S_3_12,
             Put(EmptyMap, <<"k">>,
                 LockedPackage(S_b, V_1_0, None, <<>>, Some(<<"h">>), None)))

\* The paths: a file that can be written, a file in a directory that does
\* not exist, and a file that is there and is no lock file
Paths == {"pip.lock", "nodir/pip.lock", "other.json"}

Writable == {"pip.lock"}

InitLockFile ==
    /\ InitResolver({"e2e"}, {EnvLinux})
    /\ NewSelector({"PreferCompatible"})
    /\ NewDependencyCache
    /\ lock_file \in {NoLockFile, Some(HandWritten)}
    /\ disk = Put(EmptyMap, "other.json", <<Tok("{")>>)
    /\ modified = EmptyMap
    /\ clock = 0
    /\ disk_cache = NoDiskCache
    /\ command = NoCommand
    /\ log = <<>>
    /\ arg \in {[fn |-> "from_packages", packages |-> l, python_version |-> v] :
                  l \in PackageLists, v \in {S_3_11, S_3_12}}
    /\ out = NoOut

\* What a call on a lock file leaves alone
lock_file_frame ==
    <<arg, cache_files, selector_fields, dependency_cache_fields, command, world,
      resolver_fields, pc, call_locals, ret, call, fetches, trace, prev>>

FromPackages ==
    /\ arg.fn = "from_packages"
    /\ lock_file' = Some(from_packages(arg.packages, arg.python_version, T_now))
    /\ out' = [fn |-> "from_packages"]
    /\ UNCHANGED <<disk, log, lock_file_frame>>

Validate ==
    /\ lock_file.some
    /\ out' = [fn |-> "validate", result |-> validate(lock_file.val)]
    /\ UNCHANGED <<lock_file, disk, log, lock_file_frame>>

\* fs::write(path, json)
Written(path, json) ==
    /\ disk' = Put(disk, path, json)
    /\ log' = Append(log, [op |-> "save", path |-> path,
                          lock_file |-> lock_file.val])
    /\ out' = [fn |-> "save", ok |-> TRUE]
    /\ UNCHANGED <<lock_file, lock_file_frame>>

\* LockFile::save
Save(path) ==
    /\ lock_file.some
    /\ Len(log) < MaxCalls
    /\ IF path \in Writable
       THEN \E order \in Orders(DOMAIN lock_file.val.packages) :
               \E json \in {to_string_pretty(lock_file.val, order)} :
                   Written(path, json)
       ELSE /\ out' = [fn |-> "save", ok |-> FALSE]
            /\ UNCHANGED <<lock_file, disk, log, lock_file_frame>>

Loaded(path, r) ==
    /\ lock_file' = IF r.ok THEN Some(r.val) ELSE lock_file
    /\ out' = [fn |-> "load", path |-> path, ok |-> r.ok]
    /\ UNCHANGED <<disk, log, lock_file_frame>>

\* LockFile::load
Load(path) ==
    IF path \in DOMAIN disk
    THEN \E r \in {lock_file_from_str(disk[path])} : Loaded(path, r)
    ELSE /\ out' = [fn |-> "load", path |-> path, ok |-> FALSE]
         /\ UNCHANGED <<lock_file, disk, log, lock_file_frame>>

NextLockFile ==
    \/ FromPackages
    \/ Validate
    \/ \E path \in Paths : Save(path)
    \/ \E path \in Paths : Load(path)

SpecLockFile == InitLockFile /\ [][NextLockFile]_vars

\* ------------------------------------------------------------------------
\* The install and lock commands (commands/install.rs, commands/lock.rs)
\* ------------------------------------------------------------------------
\* The loop over contents.lines(): the trimmed lines that are not empty and
\* are no comment
RECURSIVE requirement_lines(_, _, _)
requirement_lines(lines, i, acc) ==
    IF i > Len(lines) THEN acc
    ELSE requirement_lines(lines, i + 1,
            IF trim(lines[i]) # <<>> /\ ~starts_with(trim(lines[i]), <<"#">>)
            THEN Append(acc, trim(lines[i])) ELSE acc)

\* The parse loop of handle_lock: a string that does not parse is warned
\* about and left out
RECURSIVE parse_valid(_, _, _)
parse_valid(strs, i, acc) ==
    IF i > Len(strs) THEN acc
    ELSE parse_valid(strs, i + 1,
            IF from_str(strs[i]).ok THEN Append(acc, from_str(strs[i]).req)
            ELSE acc)

Proceed(reqs) == [status |-> "resolve", reqs |-> reqs]

Ended(status) == [status |-> status, reqs |-> <<>>]

\* The parse loop of handle_install: the first string that does not parse
\* ends the command
parse_or_fail(strs) ==
    IF \E i \in 1..Len(strs) : ~from_str(strs[i]).ok
    THEN Ended("Err")
    ELSE IF strs = <<>> THEN Ended("Err")
    ELSE Proceed(parse_valid(strs, 1, <<>>))

\* handle_install up to resolver.resolve(parsed_reqs), without a
\* constraints file
handle_install(packages, requirements) ==
    IF packages = <<>> /\ ~requirements.some THEN Ended("Err")
    ELSE IF requirements.some /\ ~requirements.val.exists THEN Ended("Err")
    ELSE parse_or_fail(
            packages \o (IF requirements.some
                         THEN requirement_lines(requirements.val.lines, 1, <<>>)
                         ELSE <<>>))

parsed_or_none(reqs) == IF reqs = <<>> THEN Ended("Ok(1)") ELSE Proceed(reqs)

\* handle_lock up to resolver.resolve(parsed_reqs)
handle_lock(requirements) ==
    IF ~requirements.some THEN Ended("Ok(1)")
    ELSE IF ~requirements.val.exists THEN Ended("Ok(1)")
    ELSE IF requirement_lines(requirements.val.lines, 1, <<>>) = <<>>
         THEN Ended("Ok(1)")
    ELSE parsed_or_none(
            parse_valid(requirement_lines(requirements.val.lines, 1, <<>>),
                        1, <<>>))

S_comment == <<"#", " ", "c">>

S_blank == <<" ">>

\* The longest requirements file and the most command-line arguments
MaxLines == 2

FileLines ==
    UNION {[1..n -> {S_beta, S_e_bad, S_comment, S_blank}] : n \in 0..MaxLines}

RequirementsInputs ==
    {None, Some([exists |-> FALSE, lines |-> <<>>])}
    \cup {Some([exists |-> TRUE, lines |-> l]) : l \in FileLines}

ArgumentInputs == UNION {[1..n -> {S_alpha_ge, S_e_bad}] : n \in 0..MaxLines}

InitCommands ==
    /\ InitResolver({"e2e"}, {EnvLinux})
    /\ NewComponents
    /\ arg = NoArg
    /\ out = NoOut

command_frame ==
    <<function_call, cache_files, selector_fields, dependency_cache_fields, log, world,
      resolver_fields, pc, call_locals, ret, call, fetches, trace, prev>>

HandleInstall(packages, requirements) ==
    /\ command = NoCommand
    /\ \E r \in {handle_install(packages, requirements)} :
          command' = [cmd |-> "install", packages |-> packages,
                      requirements |-> requirements, status |-> r.status,
                      reqs |-> r.reqs]
    /\ UNCHANGED <<lock_file, disk, command_frame>>

HandleLock(requirements) ==
    /\ command = NoCommand
    /\ \E r \in {handle_lock(requirements)} :
          command' = [cmd |-> "lock", packages |-> <<>>,
                      requirements |-> requirements, status |-> r.status,
                      reqs |-> r.reqs]
    /\ UNCHANGED <<lock_file, disk, command_frame>>

\* Resolver::new() and resolver.resolve(parsed_reqs) of the command
CommandResolves ==
    /\ command.cmd # "none"
    /\ command.status = "resolve"
    /\ call = NoCall
    /\ Resolve(command.reqs)

ResolveReturned ==
    /\ command.cmd # "none"
    /\ command.status = "resolve"
    /\ call # NoCall
    /\ pc = "idle"

\* handle_install after the resolution: each install_package may fail
InstallEnds ==
    /\ ResolveReturned
    /\ command.cmd = "install"
    /\ \E status \in IF ret.status = "Ok" THEN {"Ok(0)", "Ok(1)", "Err"}
                     ELSE {"Err"} :
          command' = [command EXCEPT !.status = status]
    /\ UNCHANGED <<lock_file, disk, command_frame>>

as_resolved(packages) ==
    [i \in 1..Len(packages) |->
        ResolvedPackage(packages[i].name, packages[i].version, None,
                        packages[i].requires_dist)]

LockWritten(lockfile) ==
    IF validate(lockfile).ok
    THEN /\ \E order \in Orders(DOMAIN lockfile.packages) :
               disk' = Put(disk, "pip-lock.json",
                           to_string_pretty(lockfile, order))
         /\ lock_file' = Some(lockfile)
         /\ command' = [command EXCEPT !.status = "Ok(0)"]
    ELSE /\ command' = [command EXCEPT !.status = "Err"]
         /\ UNCHANGED <<lock_file, disk>>

\* handle_lock after the resolution: from_packages, validate, save
LockEnds ==
    /\ ResolveReturned
    /\ command.cmd = "lock"
    /\ IF ret.status = "Ok"
       THEN \E lockfile \in {from_packages(as_resolved(ret.value), S_3_11,
                                          T_now)} : LockWritten(lockfile)
       ELSE /\ command' = [command EXCEPT !.status = "Err"]
            /\ UNCHANGED <<lock_file, disk>>
    /\ UNCHANGED command_frame

NextCommands ==
    \/ \E packages \in ArgumentInputs, requirements \in RequirementsInputs :
          HandleInstall(packages, requirements)
    \/ \E requirements \in RequirementsInputs : HandleLock(requirements)
    \/ CommandResolves
    \/ CallStep
    \/ InstallEnds
    \/ LockEnds

SpecCommands == InitCommands /\ [][NextCommands]_vars

\* ------------------------------------------------------------------------
\* DiskCache (cache/disk_cache.rs)
\* ------------------------------------------------------------------------
U_requests == "https://pypi.org/pypi/requests/json"

U_flask == "https://pypi.org/pypi/flask/json"

U_numpy == "https://pypi.org/pypi/numpy/json"

Urls == {U_requests, U_flask, U_numpy}

\* DiskCache::hash_key: format!("{:x}", hasher.finish()); the hashes of the
\* three keys, two of them with the same first two characters
hash_key(key) ==
    CASE key = U_requests -> <<"a", "3", "f", "1", "9", "c", "0", "e", "5", "d", "2", "b", "7", "a", "1", "1">>
      [] key = U_flask -> <<"a", "3", "7", "c", "4", "4", "1", "0", "b", "9", "e", "6", "d", "2", "f", "8">>
      [] key = U_numpy -> <<"5", "b", "2", "0", "e", "7", "d", "1", "9", "a", "4", "c", "6", "f", "0", "3">>

\* Mutant: the file is named after the subdirectory
path_of_subdir(cache_dir, key) ==
    <<cache_dir, SubSeq(hash_key(key), 1, 2), SubSeq(hash_key(key), 1, 2)>>

\* DiskCache::get_cache_path: cache_dir / hash[..2] / hash
get_cache_path(cache_dir, key) ==
    <<cache_dir, SubSeq(hash_key(key), 1, 2), hash_key(key)>>

\* std::fs::remove_file
Remove(map, key) == [k \in DOMAIN map \ {key} |-> map[k]]

Files(files, mtimes) == [disk |-> files, modified |-> mtimes]

GetResult(ok, value, fs) ==
    [ok |-> ok, value |-> value, disk |-> fs.disk, modified |-> fs.modified]

\* Mutant: an entry never expires
get_at_path_no_ttl(dc, files, mtimes, t, path) ==
    IF path \notin DOMAIN files
    THEN GetResult(TRUE, None, Files(files, mtimes))
    ELSE GetResult(TRUE, Some(files[path]), Files(files, mtimes))

\* DiskCache::get on the file of the key; t is SystemTime::now()
get_at_path(dc, files, mtimes, t, path) ==
    IF path \notin DOMAIN files
    THEN GetResult(TRUE, None, Files(files, mtimes))
    ELSE IF t < mtimes[path]
         THEN GetResult(FALSE, None, Files(files, mtimes))
    ELSE IF t - mtimes[path] > dc.ttl
         THEN GetResult(TRUE, None,
                        Files(Remove(files, path), Remove(mtimes, path)))
    ELSE GetResult(TRUE, Some(files[path]), Files(files, mtimes))

\* DiskCache::get
disk_cache_get(dc, files, mtimes, t, key) ==
    get_at_path(dc, files, mtimes, t, get_cache_path(dc.cache_dir, key))

\* DiskCache::set: std::fs::write(&path, value)
disk_cache_set(dc, files, mtimes, t, key, value) ==
    Files(Put(files, get_cache_path(dc.cache_dir, key), value),
          Put(mtimes, get_cache_path(dc.cache_dir, key), t))

\* The file that holds the entry of a key: its name is the hash of the key
FileOf(key) == <<"cache", SubSeq(hash_key(key), 1, 2), hash_key(key)>>

\* The longest time-to-live of a cache, the latest time of the clock and the
\* most entries written
MaxTtl == 1

MaxTime == 3

MaxSets == 2

\* DiskCache::new(cache_dir, ttl)
NewDiskCache(ttls) ==
    disk_cache \in {Some([cache_dir |-> "cache", ttl |-> t]) : t \in ttls}

B_one == <<Tok("["), Tok("]")>>

B_two == <<Tok("{"), Tok("}")>>

\* Bytes that are no JSON text
B_corrupt == <<Tok("{")>>

InitDiskCache ==
    /\ InitResolver({"e2e"}, {EnvLinux})
    /\ NewSelector({"PreferCompatible"})
    /\ NewDependencyCache
    /\ lock_file = NoLockFile
    /\ command = NoCommand
    /\ disk = EmptyMap
    /\ modified = EmptyMap
    /\ clock = 0
    /\ NewDiskCache(0..MaxTtl)
    /\ log = <<>>
    /\ arg = NoArg
    /\ out = NoOut

disk_cache_frame ==
    <<disk_cache, selector_fields, dependency_cache_fields, lock_file, command,
      world, resolver_fields, pc, call_locals, ret, call, fetches, trace, prev>>

DiskGetReturns(key, r) ==
    /\ disk' = r.disk
    /\ modified' = r.modified
    /\ arg' = [fn |-> "get", key |-> key]
    /\ out' = [fn |-> "get", ok |-> r.ok, value |-> r.value]
    /\ UNCHANGED <<clock, log, disk_cache_frame>>

DiskGet(key) ==
    \E r \in {disk_cache_get(disk_cache.val, disk, modified, clock, key)} :
        DiskGetReturns(key, r)

DiskSetDone(key, value, fs) ==
    /\ disk' = fs.disk
    /\ modified' = fs.modified
    /\ log' = Append(log, [op |-> "set", key |-> key, value |-> value,
                          at |-> clock])
    /\ arg' = NoArg
    /\ out' = NoOut
    /\ UNCHANGED <<clock, disk_cache_frame>>

DiskSet(key, value) ==
    /\ Len(log) < MaxSets
    /\ \E fs \in {disk_cache_set(disk_cache.val, disk, modified, clock, key,
                                value)} : DiskSetDone(key, value, fs)

\* Time passes
Tick ==
    /\ clock < MaxTime
    /\ clock' = clock + 1
    /\ arg' = NoArg
    /\ out' = NoOut
    /\ UNCHANGED <<disk, modified, log, disk_cache_frame>>

NextDiskCache ==
    \/ \E key \in Urls : DiskGet(key)
    \/ \E key \in {U_requests, U_flask}, value \in {B_one, B_two} :
          DiskSet(key, value)
    \/ Tick

SpecDiskCache == InitDiskCache /\ [][NextDiskCache]_vars

\* ------------------------------------------------------------------------
\* PackageClient (network/client.rs)
\* ------------------------------------------------------------------------
MAX_RETRIES == 2

\* serde_json::from_slice::<Value>: the bytes are one JSON value
whole_value(toks, r) ==
    IF r.ok /\ r.next = Len(toks) + 1 THEN [ok |-> TRUE, val |-> r.val]
    ELSE [ok |-> FALSE, val |-> VNull]

from_slice(toks) ==
    CHOOSE res \in {whole_value(toks, r) : r \in {parse_value(toks, 1)}} : TRUE

\* serde_json::to_string(&Value)
RECURSIVE to_string(_)
RECURSIVE ser_elements(_, _)
RECURSIVE ser_members(_, _)
to_string(json) ==
    CASE json.k = "null" -> <<Tok("null")>>
      [] json.k = "str" -> <<Str(json.v)>>
      [] json.k = "arr" -> <<Tok("[")>> \o ser_elements(json.v, 1) \o <<Tok("]")>>
      [] json.k = "obj" -> <<Tok("{")>> \o ser_members(json.v, 1) \o <<Tok("}")>>

ser_elements(l, i) ==
    IF i > Len(l) THEN <<>>
    ELSE (IF i > 1 THEN <<Tok(",")>> ELSE <<>>)
         \o to_string(l[i]) \o ser_elements(l, i + 1)

ser_members(l, i) ==
    IF i > Len(l) THEN <<>>
    ELSE (IF i > 1 THEN <<Tok(",")>> ELSE <<>>)
         \o <<Str(l[i].key), Tok(":")>> \o to_string(l[i].value)
         \o ser_members(l, i + 1)

\* What one attempt of client.get(url).send() gives
Success(body) == [kind |-> "success", body |-> body]

ClientError == [kind |-> "client", body |-> <<>>]

ServerError == [kind |-> "server", body |-> <<>>]

NetworkError == [kind |-> "network", body |-> <<>>]

\* The result of get_with_retry, the files it leaves and the requests sent
Outcome(ok, value, fs, sent) ==
    [ok |-> ok, value |-> value, disk |-> fs.disk, modified |-> fs.modified,
     sent |-> sent]

Lookup(hit, ok, value, fs) ==
    [hit |-> hit, ok |-> ok, value |-> value, fs |-> fs]

\* Mutant: cached bytes that are no JSON end the call with an error
cached_or_fail(g, json) ==
    IF g.ok /\ g.value.some
    THEN Lookup(TRUE, json.ok, IF json.ok THEN json.val ELSE "invalid cache entry",
                Files(g.disk, g.modified))
    ELSE Lookup(FALSE, FALSE, VNull, Files(g.disk, g.modified))

\* if let Ok(Some(cached_data)) = cache.get(url),
\* if let Ok(json) = serde_json::from_slice(&cached_data)
cached_json(g, json) ==
    IF g.ok /\ g.value.some /\ json.ok
    THEN Lookup(TRUE, TRUE, json.val, Files(g.disk, g.modified))
    ELSE Lookup(FALSE, FALSE, VNull, Files(g.disk, g.modified))

got_from_cache(g) ==
    CHOOSE res \in {cached_json(g, json) :
                      json \in {IF g.ok /\ g.value.some
                                THEN from_slice(g.value.val)
                                ELSE [ok |-> FALSE, val |-> VNull]}} : TRUE

\* get_with_retry: try the cache first, unless bypassing
cache_lookup(cache_opt, files, mtimes, t, url, bypass_cache) ==
    IF bypass_cache \/ ~cache_opt.some
    THEN Lookup(FALSE, FALSE, VNull, Files(files, mtimes))
    ELSE got_from_cache(disk_cache_get(cache_opt.val, files, mtimes, t, url))

\* get_with_retry: a successful response: parse it, cache it, return it
on_success(cache_opt, fs, t, url, json, sent) ==
    IF ~json.ok THEN Outcome(FALSE, "Failed to parse JSON", fs, sent)
    ELSE Outcome(TRUE, json.val,
                 IF cache_opt.some
                 THEN disk_cache_set(cache_opt.val, fs.disk, fs.modified, t, url,
                                     to_string(json.val))
                 ELSE fs,
                 sent)

\* get_with_retry: for attempt in 0..MAX_RETRIES
RECURSIVE send_attempts(_, _, _, _, _, _, _)
send_attempts(cache_opt, fs, t, url, responses, attempt, last_error) ==
    IF attempt >= MAX_RETRIES THEN Outcome(FALSE, last_error, fs, attempt)
    ELSE CASE responses[attempt + 1].kind = "success" ->
                on_success(cache_opt, fs, t, url,
                           from_slice(responses[attempt + 1].body), attempt + 1)
           [] responses[attempt + 1].kind = "client" ->
                Outcome(FALSE, "Client error", fs, attempt + 1)
           [] responses[attempt + 1].kind = "server" ->
                send_attempts(cache_opt, fs, t, url, responses, attempt + 1,
                              "Server error")
           [] responses[attempt + 1].kind = "network" ->
                send_attempts(cache_opt, fs, t, url, responses, attempt + 1,
                              "Network error")

after_lookup(cache_opt, t, url, responses, found) ==
    IF found.hit THEN Outcome(found.ok, found.value, found.fs, 0)
    ELSE send_attempts(cache_opt, found.fs, t, url, responses, 0,
                       "Failed to fetch after retries")

\* PackageClient::get_with_retry; the url is given without its query, and
\* bypass_cache tells whether the query has "_t="
get_with_retry(cache_opt, files, mtimes, t, url, bypass_cache, responses) ==
    CHOOSE res \in {after_lookup(cache_opt, t, url, responses, found) :
                      found \in {cache_lookup(cache_opt, files, mtimes, t, url,
                                              bypass_cache)}} : TRUE

S_info == <<"i", "n", "f", "o">>

\* Two metadata documents and what they say
B_v1 == <<Tok("{"), Raw(S_info), Tok(":"), Raw(<<"1">>), Tok("}")>>

B_v2 == <<Tok("{"), Raw(S_info), Tok(":"), Raw(<<"\\", "\"", "2">>), Tok("}")>>

J_v1 == VObj(<<Member(S_info, VStr(<<"1">>))>>)

J_v2 == VObj(<<Member(S_info, VStr(<<"\"", "2">>))>>)

\* Bytes that are no JSON text: a truncated file, an empty file
Corrupted == {B_corrupt, <<>>}

\* The responses to the requests of one call: a request is sent again only
\* after a server error or a network error
Responses ==
    {Success(B_v1), Success(B_v2), Success(B_corrupt), ClientError, ServerError,
     NetworkError}

Retried == {ServerError, NetworkError}

ResponseLists ==
    {<<r>> : r \in Responses \ Retried}
    \cup {<<r1, r2>> : r1 \in Retried, r2 \in Responses}

InitClient ==
    /\ InitResolver({"e2e"}, {EnvLinux})
    /\ NewSelector({"PreferCompatible"})
    /\ NewDependencyCache
    /\ lock_file = NoLockFile
    /\ command = NoCommand
    /\ disk = EmptyMap
    /\ modified = EmptyMap
    /\ clock = 0
    /\ \/ disk_cache = NoDiskCache
       \/ NewDiskCache(1..MaxTtl)
    /\ log = <<>>
    /\ arg = NoArg
    /\ out = NoOut

\* What the cache file of the url holds
Cached(url) ==
    IF FileOf(url) \in DOMAIN disk THEN Some(disk[FileOf(url)]) ELSE None

GetPackageInfoReturns(url, fresh, responses, r) ==
    /\ disk' = r.disk
    /\ modified' = r.modified
    /\ arg' = [fn |-> "get_package_info", url |-> url, fresh |-> fresh,
               responses |-> responses]
    /\ out' = [fn |-> "get_package_info", ok |-> r.ok, value |-> r.value,
               sent |-> r.sent, before |-> Cached(url)]
    /\ UNCHANGED <<clock, log, disk_cache_frame>>

\* PackageClient::get_package_info / get_package_info_fresh
GetPackageInfo(url, fresh, responses) ==
    \E r \in {get_with_retry(disk_cache, disk, modified, clock, url, fresh,
                             responses)} :
        GetPackageInfoReturns(url, fresh, responses, r)

\* The cache file of a url is damaged: its bytes are no JSON text any more
Damage(url, bytes) ==
    /\ FileOf(url) \in DOMAIN disk
    /\ disk[FileOf(url)] \notin Corrupted
    /\ disk' = Put(disk, FileOf(url), bytes)
    /\ \E t \in {modified[FileOf(url)], clock} :
          modified' = Put(modified, FileOf(url), t)
    /\ arg' = NoArg
    /\ out' = NoOut
    /\ UNCHANGED <<clock, log, disk_cache_frame>>

NextClient ==
    \/ \E url \in {U_requests}, fresh \in BOOLEAN, responses \in ResponseLists :
          GetPackageInfo(url, fresh, responses)
    \/ \E url \in {U_requests}, bytes \in Corrupted : Damage(url, bytes)
    \/ Tick

SpecClient == InitClient /\ [][NextClient]_vars

\* ------------------------------------------------------------------------
\* MarkerEvaluator (utils/environment_markers.rs)
\* ------------------------------------------------------------------------
S_python_version == <<"p", "y", "t", "h", "o", "n", "_", "v", "e", "r", "s", "i", "o", "n">>

S_platform == <<"p", "l", "a", "t", "f", "o", "r", "m">>

S_implementation_name == <<"i", "m", "p", "l", "e", "m", "e", "n", "t", "a", "t", "i", "o", "n", "_", "n", "a", "m", "e">>

S_platform_machine == <<"p", "l", "a", "t", "f", "o", "r", "m", "_", "m", "a", "c", "h", "i", "n", "e">>

S_os_name == <<"o", "s", "_", "n", "a", "m", "e">>

S_sys_platform == <<"s", "y", "s", "_", "p", "l", "a", "t", "f", "o", "r", "m">>

S_Linux == <<"L", "i", "n", "u", "x">>

S_darwin == <<"d", "a", "r", "w", "i", "n">>

S_3_9 == <<"3", ".", "9">>

S_3_10 == <<"3", ".", "1", "0">>

\* struct EnvironmentContext
EnvironmentContext(python_version, platform) ==
    [python_version |-> python_version, platform |-> platform,
     implementation |-> S_cpython, architecture |-> S_x86_64,
     os_name |-> S_posix, system |-> S_Linux]

\* EnvironmentContext::to_marker_vars
to_marker_vars(ctx) ==
    [name \in {S_python_version, S_platform, S_implementation_name,
               S_platform_machine, S_os_name, S_sys_platform} |->
        CASE name = S_python_version -> ctx.python_version
          [] name = S_platform -> ctx.platform
          [] name = S_implementation_name -> ctx.implementation
          [] name = S_platform_machine -> ctx.architecture
          [] name = S_os_name -> ctx.os_name
          [] name = S_sys_platform -> ctx.platform]

\* MarkerEvaluator::get_var
get_var(ctx, name) ==
    IF name \in DOMAIN to_marker_vars(ctx) THEN Some(to_marker_vars(ctx)[name])
    ELSE None

\* right.trim_matches('"').trim_matches('\'')
unquoted(right) == trim_matches(trim_matches(right, "\""), "'")

\* MarkerEvaluator::compare_equal
compare_equal(ctx, left, right) ==
    get_var(ctx, left).some /\ get_var(ctx, left).val = unquoted(right)

\* left_val.as_str() compared with right_val: the order of str
compare_str(left_val, right_val) == str_cmp(left_val, right_val)

\* MarkerEvaluator::compare_gte
compare_gte(ctx, left, right) ==
    get_var(ctx, left).some
    /\ compare_str(get_var(ctx, left).val, unquoted(right)) >= 0

\* MarkerEvaluator::compare_lte
compare_lte(ctx, left, right) ==
    get_var(ctx, left).some
    /\ compare_str(get_var(ctx, left).val, unquoted(right)) <= 0

\* MarkerEvaluator::compare_gt
compare_gt(ctx, left, right) ==
    get_var(ctx, left).some
    /\ compare_str(get_var(ctx, left).val, unquoted(right)) > 0

\* MarkerEvaluator::compare_lt
compare_lt(ctx, left, right) ==
    get_var(ctx, left).some
    /\ compare_str(get_var(ctx, left).val, unquoted(right)) < 0

\* str::split(pattern): the pieces between the occurrences of the pattern
RECURSIVE split_str(_, _)
RECURSIVE split_str_at(_, _, _)
split_str_at(s, p, i) ==
    IF i < 0 THEN <<s>>
    ELSE <<Slice(s, 0, i)>> \o split_str(SliceFrom(s, i + Len(p)), p)

split_str(s, p) == split_str_at(s, p, find(s, p))

\* let (left, right) = marker.split_at(pos); right[n..].trim(); left.trim()
left_of(marker, pos) == trim(Slice(marker, 0, pos))

right_of(marker, pos, n) == trim(SliceFrom(marker, pos + n))

\* MarkerEvaluator::evaluate
RECURSIVE evaluator_evaluate(_, _)
RECURSIVE evaluate_trimmed(_, _)
evaluate_comparison(ctx, marker) ==
    IF find(marker, <<"=", "=">>) >= 0
    THEN compare_equal(ctx, left_of(marker, find(marker, <<"=", "=">>)),
                       right_of(marker, find(marker, <<"=", "=">>), 2))
    ELSE IF find(marker, <<"!", "=">>) >= 0
    THEN ~compare_equal(ctx, left_of(marker, find(marker, <<"!", "=">>)),
                        right_of(marker, find(marker, <<"!", "=">>), 2))
    ELSE IF find(marker, <<">", "=">>) >= 0
    THEN compare_gte(ctx, left_of(marker, find(marker, <<">", "=">>)),
                     right_of(marker, find(marker, <<">", "=">>), 2))
    ELSE IF find(marker, <<"<", "=">>) >= 0
    THEN compare_lte(ctx, left_of(marker, find(marker, <<"<", "=">>)),
                     right_of(marker, find(marker, <<"<", "=">>), 2))
    ELSE IF find(marker, <<">">>) >= 0
    THEN compare_gt(ctx, left_of(marker, find(marker, <<">">>)),
                    right_of(marker, find(marker, <<">">>), 1))
    ELSE IF find(marker, <<"<">>) >= 0
    THEN compare_lt(ctx, left_of(marker, find(marker, <<"<">>)),
                    right_of(marker, find(marker, <<"<">>), 1))
    ELSE FALSE

all_hold(ctx, pieces) ==
    \A i \in 1..Len(pieces) : evaluator_evaluate(ctx, pieces[i])

any_holds(ctx, pieces) ==
    \E i \in 1..Len(pieces) : evaluator_evaluate(ctx, pieces[i])

evaluate_trimmed(ctx, marker) ==
    IF contains(marker, <<" ", "a", "n", "d", " ">>)
    THEN all_hold(ctx, split_str(marker, <<" ", "a", "n", "d", " ">>))
    ELSE IF contains(marker, <<" ", "o", "r", " ">>)
    THEN any_holds(ctx, split_str(marker, <<" ", "o", "r", " ">>))
    ELSE evaluate_comparison(ctx, marker)

evaluator_evaluate(ctx, marker) == evaluate_trimmed(ctx, trim(marker))

\* The python versions of the contexts and of the markers
PythonVersions == {S_3_9, S_3_10, S_3_11, S_3_12, S_3_11_0}

Comparisons == {<<"=", "=">>, <<"!", "=">>, <<">", "=">>, <<"<", "=">>, <<">">>, <<"<">>}

\* The text of the condition: variable, operator, quoted value
Condition(var, op, quote, value) ==
    var \o <<" ">> \o op \o <<" ", quote>> \o value \o <<quote>>

\* One condition on python_version, labelled with its operator and value
PythonConditions ==
    {[marker |-> Condition(S_python_version, op, quote, x),
      var |-> S_python_version, op |-> op, x |-> x] :
        op \in Comparisons, quote \in {"\"", "'"}, x \in PythonVersions}

\* Conditions on the platform, alone and joined to one on the version
JoinedConditions ==
    {[marker |-> Condition(S_platform, <<"=", "=">>, "\"", p), var |-> S_platform,
      op |-> <<"=", "=">>, x |-> p] : p \in {S_linux, S_darwin}}
    \cup {[marker |-> Condition(S_python_version, <<">", "=">>, "\"", x) \o j
                      \o Condition(S_platform, <<"=", "=">>, "\"", S_linux),
           var |-> <<>>, op |-> j, x |-> x] :
             j \in {<<" ", "a", "n", "d", " ">>, <<" ", "o", "r", " ">>}, x \in PythonVersions}

InitEvaluator ==
    /\ InitResolver({"e2e"}, {EnvLinux})
    /\ NewComponents
    /\ \E c \in PythonConditions \cup JoinedConditions, v \in PythonVersions :
          arg = [fn |-> "evaluate", context |-> EnvironmentContext(v, S_linux),
                 marker |-> c.marker, var |-> c.var, op |-> c.op, x |-> c.x]
    /\ out = NoOut

\* MarkerEvaluator::new(context).evaluate(marker)
Evaluate ==
    /\ arg.fn = "evaluate"
    /\ out = NoOut
    /\ out' = [fn |-> "evaluate",
               value |-> evaluator_evaluate(arg.context, arg.marker)]
    /\ UNCHANGED <<arg, components, world, resolver_fields, pc, call_locals,
                   ret, call, fetches, trace, prev>>

NextEvaluator == Evaluate

SpecEvaluator == InitEvaluator /\ [][NextEvaluator]_vars

\* ------------------------------------------------------------------------
\* Properties
\* ------------------------------------------------------------------------
Idx == 1..Len(trace)

Returned == pc = "idle" /\ ret.status = "Ok"

\* The call started on a Resolver that had visited nothing
FreshCall == call.reqs # <<>> /\ call.visited0 = {}

Batched(k) == trace[k].ev = "dequeue" /\ trace[k].outcome = "batched"

Discarded(k) == trace[k].ev = "dequeue" /\ trace[k].outcome = "discarded"

IsResult(k) == trace[k].ev = "result"

Accepted(k) == trace[k].ev = "result" /\ trace[k].outcome = "accepted"

IsDep(k) == trace[k].ev = "dep"

BatchedNames == {trace[k].name : k \in {j \in Idx : Batched(j)}}

Dequeues(n) == {k \in Idx : trace[k].ev = "dequeue" /\ trace[k].name = n}

\* The result list of the call: resolved while it runs, the returned value
\* after it
Result == IF pc = "idle" THEN ret.value ELSE resolved

\* C1: in one resolve() call the metadata source is asked for any name at
\* most once, whatever the requirement list and the dependency graph.
C1_FetchedAtMostOnce == \A n \in DOMAIN fetches : fetches[n] <= 1

\* A fresh call has returned in which some name was dequeued at least twice
\* (repeated in the list, or enqueued by several packages) and fetched once,
\* and a dependency edge led back to a visited name.
C1_Witness ==
    /\ Returned
    /\ FreshCall
    /\ \E n \in DOMAIN fetches : fetches[n] = 1 /\ Cardinality(Dequeues(n)) >= 2
    /\ \E k \in Idx : IsDep(k) /\ trace[k].outcome = "visited"

\* C2: resolve() terminates: every call that started returns, also on a
\* dependency graph with cycles.
C2_Terminates == (pc # "idle") ~> (pc = "idle")

\* A call on the ring n0 -> n1 -> ... -> n10 -> n0 has returned with all
\* eleven packages, the last edge leading back to a visited name.
C2_Witness ==
    /\ Returned
    /\ world = "ring"
    /\ Len(ret.value) = max_concurrent + 1
    /\ \E k \in Idx : IsDep(k) /\ trace[k].outcome = "visited"

\* C3: resolve() returns Ok whatever the source answers; a failed fetch or
\* task leaves only its own package out: every batch member still gets its
\* fetch and its result, and the returned list is exactly the accepted
\* packages in order.
C3_AlwaysOk ==
    /\ ret.status # "Err"
    /\ pc = "idle" /\ call.reqs # <<>> =>
          /\ ret.status = "Ok"
          /\ \A n \in BatchedNames :
                /\ n \in DOMAIN fetches /\ fetches[n] = 1
                /\ Cardinality({k \in Idx : IsResult(k) /\ trace[k].name = n}) = 1
          /\ ret.value =
                [i \in 1..Len(SelectSeq(trace, LAMBDA e : e.ev = "result"
                                                    /\ e.outcome = "accepted")) |->
                    SelectSeq(trace, LAMBDA e : e.ev = "result"
                                          /\ e.outcome = "accepted")[i].package]

\* A call has returned Ok in which a task failed, then a fetch failed, then
\* a member of the same batch was accepted, and a later batch was accepted
\* too.
C3_Witness ==
    /\ Returned
    /\ \E i, j, k, m \in Idx :
          /\ i < j /\ j < k /\ k < m
          /\ IsResult(i) /\ trace[i].outcome = "task_error"
          /\ IsResult(j) /\ trace[j].outcome = "fetch_error"
          /\ Accepted(k)
          /\ Batched(m)
    /\ Len(ret.value) >= 3

\* The batched dequeue of the name of result k: the requirement that
\* caused the fetch
Origin(k) == CHOOSE j \in Idx : Batched(j) /\ trace[j].name = trace[k].name

\* version satisfies every spec of the list (logical AND)
SatisfiesAll(version, specs) == satisfies_version(EmptyMap, version, specs).ok

\* Result k carries a fetched package
Fetched(k) ==
    /\ IsResult(k)
    /\ trace[k].outcome \in {"accepted", "spec_mismatch", "constraint_mismatch"}

\* The dependency events of owner n
DepsOf(n) == {k \in Idx : IsDep(k) /\ trace[k].name = n}

InResult(package) == \E i \in 1..Len(Result) : Result[i] = package

\* C4: a fetched package whose version fails a spec of the requirement that
\* caused its fetch is not in the result and none of its requires_dist
\* entries is expanded; every package of the result satisfies all specs of
\* its originating requirement.
C4_SpecMismatchDropped ==
    /\ \A k \in Idx :
          Fetched(k)
          /\ ~SatisfiesAll(trace[k].package.version, trace[Origin(k)].req.specs)
          => /\ trace[k].outcome = "spec_mismatch"
             /\ ~InResult(trace[k].package)
             /\ DepsOf(trace[k].name) = {}
    /\ \A i \in 1..Len(Result) :
          \E k \in Idx :
             /\ Accepted(k)
             /\ trace[k].package = Result[i]
             /\ SatisfiesAll(Result[i].version, trace[Origin(k)].req.specs)

\* A fresh call has returned a result although D 0.9 was fetched for
\* "D>=1.0": D is not in the result and its dependency e was never fetched.
C4_Witness ==
    /\ Returned
    /\ FreshCall
    /\ Len(ret.value) >= 2
    /\ \E k \in Idx :
          /\ IsResult(k)
          /\ trace[k].outcome = "spec_mismatch"
          /\ trace[k].package.requires_dist # <<>>
          /\ trace[Origin(k)].req.specs # <<>>
          /\ \A i \in 1..Len(trace[k].package.requires_dist) :
                from_str(trace[k].package.requires_dist[i]).req.name
                    \notin DOMAIN fetches

\* Every constraint requirement registered for name n is satisfied
ConstraintsMet(n, version) ==
    \A i \in 1..Len(constraints[n]) : SatisfiesAll(version, constraints[n][i].specs)

\* C5: a fetched package that passed its own requirement and whose name has
\* constraint entries is accepted exactly if its version satisfies every
\* spec of every constraint requirement registered for the name; otherwise
\* it is dropped and not expanded, and resolve() still returns Ok.
C5_ConstraintsEnforced ==
    /\ \A k \in Idx :
          IsResult(k)
          /\ trace[k].outcome \in {"accepted", "constraint_mismatch"}
          /\ trace[k].name \in DOMAIN constraints
          => IF ConstraintsMet(trace[k].name, trace[k].package.version)
             THEN trace[k].outcome = "accepted"
             ELSE /\ trace[k].outcome = "constraint_mismatch"
                  /\ ~InResult(trace[k].package)
                  /\ DepsOf(trace[k].name) = {}
    /\ \A k \in Idx :
          IsResult(k) /\ trace[k].outcome = "constraint_mismatch"
          => trace[k].name \in DOMAIN constraints
    /\ pc = "idle" /\ call.reqs # <<>> => ret.status = "Ok"

\* Two set_constraints calls registered two requirements for c; c 1.0
\* passed the first and failed the second, was dropped, and the call
\* returned Ok with the other packages.
C5_Witness ==
    /\ Returned
    /\ Len(ret.value) >= 1
    /\ \E k \in Idx :
          /\ IsResult(k)
          /\ trace[k].outcome = "constraint_mismatch"
          /\ Len(constraints[trace[k].name]) = 2
          /\ SatisfiesAll(trace[k].package.version,
                          constraints[trace[k].name][1].specs)
          /\ ~SatisfiesAll(trace[k].package.version,
                           constraints[trace[k].name][2].specs)
          /\ trace[k].package.requires_dist # <<>>

IsEnqueued(e) == e.ev = "dep" /\ e.outcome = "enqueued"

IsDequeue(e) == e.ev = "dequeue"

ReqsOf(events) == [i \in 1..Len(events) |-> events[i].req]

\* The queue holds exactly what was pushed and not yet dequeued, in order:
\* the initial requirements, then the dependencies noted as enqueued
QueueConserved ==
    call.reqs \o ReqsOf(SelectSeq(trace, IsEnqueued))
        = ReqsOf(SelectSeq(trace, IsDequeue))
          \o (IF pc = "idle" THEN <<>> ELSE queue)

\* The names visited when event k was written
VisitedBefore(k) ==
    call.visited0 \cup {trace[j].name : j \in {i \in 1..(k - 1) : Batched(i)}}

\* The marker of the requirement parses and is false in the environment
MarkerFalse(req) ==
    /\ req.marker.some
    /\ Marker_parse(req.marker.val).ok
    /\ ~evaluate(Marker_parse(req.marker.val).marker, environment)

\* C6: a requires_dist entry whose marker is false in the Resolver's
\* environment is not enqueued and its name does not become visited: only
\* batched names are visited, so another edge still enqueues the name; on
\* win32, alpha requiring "beta>=1.0; sys_platform=='linux'" gives [alpha].
C6_MarkerFalseSkipped ==
    /\ \A k \in Idx :
          IsDep(k) /\ trace[k].outcome # "unparseable"
          => (MarkerFalse(trace[k].req) <=> trace[k].outcome = "marker_false")
    /\ QueueConserved
    /\ call.reqs # <<>> => visited = call.visited0 \cup BatchedNames
    /\ \A k \in Idx :
          IsDep(k) /\ trace[k].outcome = "visited"
          => trace[k].req.name \in VisitedBefore(k)
    /\ /\ Returned
       /\ FreshCall
       /\ world = "e2e"
       /\ environment.sys_platform = S_win32
       /\ call.reqs = parse_all(<<S_alpha_ge>>)
       => ret.value = <<SourceE2E[S_alpha].package>>

\* On win32 the edge a -> "b; sys_platform == 'linux'" was skipped, the
\* later edge c -> "B" enqueued b, and b is in the returned result.
C6_Witness ==
    /\ Returned
    /\ FreshCall
    /\ environment.sys_platform = S_win32
    /\ \E k, m \in Idx :
          /\ k < m
          /\ IsDep(k) /\ trace[k].outcome = "marker_false"
          /\ IsDep(m) /\ trace[m].outcome = "enqueued"
          /\ trace[m].req.name = trace[k].req.name
          /\ trace[m].req.marker = None
          /\ trace[k].req.name \in DOMAIN fetches
          /\ \E i \in 1..Len(ret.value) :
                ret.value[i] = get_package_metadata(world, trace[k].req.name).package

\* What the expansion loop does with entry dep_str at position k of the
\* history
ExpectedDep(dep_str, k) ==
    IF ~from_str(dep_str).ok THEN "unparseable"
    ELSE IF MarkerFalse(from_str(dep_str).req) THEN "marker_false"
    ELSE IF from_str(dep_str).req.name \in VisitedBefore(k) THEN "visited"
    ELSE "enqueued"

\* C7: expansion is complete: an accepted package is followed by one
\* dependency event per requires_dist entry, in order; an entry that parses
\* and whose marker is absent or true is enqueued unless its name is
\* visited; what is enqueued reaches the queue, and at the return every
\* enqueued name has been batched and fetched; on linux, "alpha>=1.0" with
\* alpha requiring "beta>=1.0; sys_platform=='linux'" gives alpha, beta.
C7_ExpansionComplete ==
    /\ \A k \in Idx :
          Accepted(k) =>
             \A i \in 1..Len(trace[k].package.requires_dist) :
                /\ k + i <= Len(trace)
                /\ IsDep(k + i)
                /\ trace[k + i].name = trace[k].name
                /\ trace[k + i].dep = trace[k].package.requires_dist[i]
                /\ trace[k + i].outcome =
                      ExpectedDep(trace[k].package.requires_dist[i], k + i)
                /\ trace[k + i].outcome # "unparseable"
                   => trace[k + i].req
                         = from_str(trace[k].package.requires_dist[i]).req
    /\ QueueConserved
    /\ pc = "idle" /\ call.reqs # <<>> =>
          \A k \in Idx :
             IsEnqueued(trace[k])
             => /\ trace[k].req.name \in BatchedNames
                /\ trace[k].req.name \in DOMAIN fetches
                /\ fetches[trace[k].req.name] = 1
    /\ /\ Returned
       /\ FreshCall
       /\ world = "e2e"
       /\ environment.sys_platform = S_linux
       /\ call.reqs = parse_all(<<S_alpha_ge>>)
       => ret.value = <<SourceE2E[S_alpha].package, SourceE2E[S_beta].package>>

\* End-to-end A: on linux the call for "alpha>=1.0" has returned alpha
\* followed by beta, beta enqueued by alpha's requires_dist entry.
C7_Witness ==
    /\ Returned
    /\ FreshCall
    /\ world = "e2e"
    /\ environment.sys_platform = S_linux
    /\ call.reqs = parse_all(<<S_alpha_ge>>)
    /\ Len(ret.value) = 2
    /\ \E k \in Idx : IsEnqueued(trace[k]) /\ trace[k].req.name = S_beta

\* The first dequeue of name n
FirstDequeue(n) == CHOOSE k \in Dequeues(n) : \A j \in Dequeues(n) : k <= j

\* C8: first wins: of the requirements dequeued for a name only the first
\* is batched (none if the name was visited before the call), every later
\* one is discarded; the outcome of the fetch is decided by the specs of
\* that first requirement and the constraints; and a name has one fetch and
\* one result, also when it was dropped or its fetch failed.
C8_FirstWins ==
    /\ \A k \in Idx :
          trace[k].ev = "dequeue" =>
             (Batched(k) <=> /\ trace[k].name \notin call.visited0
                             /\ k = FirstDequeue(trace[k].name))
    /\ \A k \in Idx :
          Fetched(k) =>
             (Accepted(k) <=>
                /\ SatisfiesAll(trace[k].package.version,
                                trace[FirstDequeue(trace[k].name)].req.specs)
                /\ trace[k].name \in DOMAIN constraints
                   => ConstraintsMet(trace[k].name, trace[k].package.version))
    /\ \A k \in Idx :
          IsResult(k) =>
             /\ fetches[trace[k].name] = 1
             /\ Cardinality({j \in Idx : IsResult(j)
                                         /\ trace[j].name = trace[k].name}) = 1
             /\ Cardinality({j \in Dequeues(trace[k].name) : Batched(j)}) = 1

\* b 1.5 was accepted for the requirement "b" and is in the returned
\* result, although the later requirement "b<1.0" of the list, which it
\* violates, was dequeued and discarded.
C8_Witness ==
    /\ Returned
    /\ FreshCall
    /\ \E j, k \in Idx :
          /\ Accepted(j)
          /\ Discarded(k)
          /\ trace[k].name = trace[j].name
          /\ FirstDequeue(trace[j].name) < k
          /\ trace[FirstDequeue(trace[j].name)].req.specs = <<>>
          /\ trace[k].req.specs # <<>>
          /\ ~SatisfiesAll(trace[j].package.version, trace[k].req.specs)
          /\ InResult(trace[j].package)

\* The tasks whose fetch is in flight
InFlight == {i \in DOMAIN handles : handles[i].st = "fetching"}

\* C9: at most max_concurrent = 10 fetches are in flight: every fetch in
\* flight holds one of the permits from its start to its end, and no batch
\* has more than max_concurrent members.
C9_BoundedInFlight ==
    /\ Cardinality(InFlight) <= max_concurrent
    /\ Len(handles) <= max_concurrent
    /\ permits >= 0
    /\ pc = "await" => permits = max_concurrent - Cardinality(InFlight)

\* All ten members of a full batch are in flight and no permit is left,
\* the eleventh requirement still waiting in the queue.
C9_Witness ==
    /\ pc = "await"
    /\ Cardinality(InFlight) = max_concurrent
    /\ permits = 0
    /\ Len(queue) = 1

\* C10: resolving the same requirements twice on one Resolver, with no
\* set_constraints or clear_cache in between, returns the same packages
\* both times (the second call does not see the first call's visited set).
C10_SameResultTwice ==
    Returned /\ prev.valid /\ prev.reqs = call.reqs => ret.value = prev.value

\* C11: right after clear_cache() the visited set, the package cache, the
\* version-parse cache and the constraint set of the Resolver are all empty.
C11_ClearCacheEmptiesAll ==
    [][ClearCache => /\ visited' = {}
                     /\ cache' = EmptyMap
                     /\ version_cache' = EmptyMap
                     /\ constraints' = EmptyMap]_vars

\* The reference version check. A number is kept as [hi, lo], its value
\* hi * 100000 + lo, so that every u32 is exact.
RECURSIVE RefVal(_)
RefVal(d) ==
    IF d = <<>> THEN 0
    ELSE 10 * RefVal(SubSeq(d, 1, Len(d) - 1)) + DigitVal[d[Len(d)]]

RefIsDigits(p) == p # <<>> /\ \A i \in 1..Len(p) : p[i] \in Digits

\* The digits of p from its first non-zero digit on
RefSignificant(p) ==
    LET nz == {i \in 1..Len(p) : p[i] # "0"}
    IN  IF nz = {} THEN <<>>
        ELSE SubSeq(p, CHOOSE i \in nz : \A j \in nz : i <= j, Len(p))

RefNumberOf(s) ==
    [hi |-> RefVal(SubSeq(s, 1, Len(s) - 5)),
     lo |-> RefVal(SubSeq(s, IF Len(s) > 5 THEN Len(s) - 4 ELSE 1, Len(s)))]

RefNumber(p) == RefNumberOf(RefSignificant(p))

RefLess(a, b) == a.hi < b.hi \/ (a.hi = b.hi /\ a.lo < b.lo)

\* A numeric component: a decimal number of at most u32::MAX = 4294967295
RefNumeric(p) ==
    /\ RefIsDigits(p)
    /\ Len(RefSignificant(p)) <= 10
    /\ ~RefLess([hi |-> 42949, lo |-> 67295], RefNumber(p))

RECURSIVE RefSplit(_)
RefSplit(v) ==
    LET dots == {i \in 1..Len(v) : v[i] = "."}
    IN  IF dots = {} THEN <<v>>
        ELSE LET i == CHOOSE d \in dots : \A e \in dots : d <= e
             IN  <<SubSeq(v, 1, i - 1)>> \o RefSplit(SubSeq(v, i + 1, Len(v)))

\* The numeric components of a version, in order
RefComponentsOf(kept) == [i \in 1..Len(kept) |-> RefNumber(kept[i])]

RefComponents(v) == RefComponentsOf(SelectSeq(RefSplit(v), RefNumeric))

RefZero == [hi |-> 0, lo |-> 0]

\* The i-th component, a missing one counting as 0
RefAt(parts, i) == IF i <= Len(parts) THEN parts[i] ELSE RefZero

\* -1, 0 or 1 as a is below, equal to or above b at the first component that
\* differs
RefCompareParts(a, b) ==
    LET differ == {i \in 1..Max(Len(a), Len(b)) : RefAt(a, i) # RefAt(b, i)}
    IN  IF differ = {} THEN 0
        ELSE LET i == CHOOSE d \in differ : \A e \in differ : d <= e
             IN  IF RefLess(RefAt(a, i), RefAt(b, i)) THEN -1 ELSE 1

RefCompare(v, t) == RefCompareParts(RefComponents(v), RefComponents(t))

RefOrdinal(op, c) ==
    CASE op = "Eq"    -> c = 0
      [] op = "NotEq" -> c # 0
      [] op = "Lt"    -> c = -1
      [] op = "LtEq"  -> c # 1
      [] op = "Gt"    -> c = 1
      [] op = "GtEq"  -> c # -1

\* ~=: same major, same minor, and not below the target
RefCompatible(v, t) ==
    /\ RefAt(RefComponents(v), 1) = RefAt(RefComponents(t), 1)
    /\ RefAt(RefComponents(v), 2) = RefAt(RefComponents(t), 2)
    /\ RefCompare(v, t) # -1

RefCheck(v, spec) ==
    IF spec.op = "Compatible" THEN RefCompatible(v, spec.version)
    ELSE RefOrdinal(spec.op, RefCompare(v, spec.version))

CheckReturned == out.fn = "check_version_spec"

\* C12: check_version_spec(version, spec) equals the reference check: the
\* numeric components of the two versions (the components that are numbers
\* of the component type u32; the others are dropped) are compared left to
\* right as integers, a missing component counting as 0, and the result is
\* equal for Eq, not equal for NotEq, less for Lt, not greater for LtEq,
\* greater for Gt, not less for GtEq. satisfies_version is true exactly
\* when every spec of the list holds, and is true for the empty list.
C12_CheckMatchesReference ==
    /\ CheckReturned /\ arg.spec.op # "Compatible" =>
           out.ok = RefOrdinal(arg.spec.op, RefCompare(arg.version, arg.spec.version))
    /\ out.fn = "satisfies_version" =>
           /\ out.ok = \A i \in 1..Len(arg.specs) : RefCheck(arg.version, arg.specs[i])
           /\ arg.specs = <<>> => out.ok

\* The list [>=1.2, <2.0] was checked against 1.10 and holds: 1.10 is above
\* 1.2 (10 > 2, although "1.10" sorts before "1.2" as text)
C12_Witness ==
    /\ out.fn = "satisfies_version"
    /\ arg.version = V_1_10
    /\ arg.specs = <<VersionSpec("GtEq", V_1_2), VersionSpec("Lt", with_zeros(V_2, 1))>>
    /\ out.ok

\* w is v followed by some number of ".0" components
ZeroExtended(v, w) == \E k \in 0..MaxZeros : w = with_zeros(v, k)

\* C13: the comparison is insensitive to trailing zero components: between
\* a version v and v followed by any number of ".0" components, in either
\* order, Eq, LtEq and GtEq hold and NotEq, Lt and Gt do not.
C13_TrailingZerosEqual ==
    /\ CheckReturned
    /\ arg.spec.op # "Compatible"
    /\ \/ ZeroExtended(arg.version, arg.spec.version)
       \/ ZeroExtended(arg.spec.version, arg.version)
    => out.ok = (arg.spec.op \in {"Eq", "LtEq", "GtEq"})

\* "1.0" was checked against =="1.0.0" and holds
C13_Witness ==
    /\ CheckReturned
    /\ arg.version = with_zeros(V_1, 1)
    /\ arg.spec = VersionSpec("Eq", with_zeros(V_1, 2))
    /\ out.ok

\* C14: check_version_spec(v, ~=t) is true exactly when v and t have the
\* same first (major) component and the same second (minor) component, a
\* missing one counting as 0, and v is not below t.
C14_CompatibleRule ==
    CheckReturned /\ arg.spec.op = "Compatible" =>
        out.ok = RefCompatible(arg.version, arg.spec.version)

\* 2.0.1 was checked against ~=2.0.0 and holds
C14_Witness ==
    /\ CheckReturned
    /\ arg.version = V_2_0_1
    /\ arg.spec = VersionSpec("Compatible", with_zeros(V_2, 2))
    /\ out.ok

\* The call check_version_spec(v, ~=2.0.0) has returned
CheckedAgainst_2_0_0(v) ==
    /\ CheckReturned
    /\ arg.version = v
    /\ arg.spec = VersionSpec("Compatible", with_zeros(V_2, 2))

\* C15: check_version_spec("2.1.0", ~=2.0.0) is true,
\* check_version_spec("3.0.0", ~=2.0.0) is false and
\* check_version_spec("1.9.0", ~=2.0.0) is false.
C15_CompatibleExamples ==
    /\ CheckedAgainst_2_0_0(with_zeros(V_2_1, 1)) => out.ok
    /\ CheckedAgainst_2_0_0(with_zeros(V_3, 2)) => ~out.ok
    /\ CheckedAgainst_2_0_0(with_zeros(V_1_9, 1)) => ~out.ok

\* C15 as amended: check_version_spec("2.1.0", ~=2.0.0) is false, the minor
\* components 1 and 0 differing (check_version_spec("2.0.1", ~=2.0.0) is
\* true); check_version_spec("3.0.0", ~=2.0.0) is false and
\* check_version_spec("1.9.0", ~=2.0.0) is false.
C15_CompatibleExamplesAmended ==
    /\ CheckedAgainst_2_0_0(with_zeros(V_2_1, 1)) => ~out.ok
    /\ CheckedAgainst_2_0_0(V_2_0_1) => out.ok
    /\ CheckedAgainst_2_0_0(with_zeros(V_3, 2)) => ~out.ok
    /\ CheckedAgainst_2_0_0(with_zeros(V_1_9, 1)) => ~out.ok

\* 2.1.0 was checked against ~=2.0.0 and does not hold
C15_Witness == CheckedAgainst_2_0_0(with_zeros(V_2_1, 1)) /\ ~out.ok

ParseReturned == out.fn = "from_str"

\* C16: for a requirement string built as name[extras]specs;marker, parse
\* returns the name lowercased with every '_' replaced by '-', the extras in
\* their written order, the version specs in their written order, each with
\* its operator and its version text, and as marker the text after the first
\* ';' with the surrounding blanks removed; without ';' the marker is absent.
C16_ParseRoundTrip ==
    ParseReturned /\ arg.kind = "built" =>
        /\ out.ok
        /\ out.req.name = arg.name.normalized
        /\ out.req.extras = arg.extras
        /\ out.req.specs = arg.specs
        /\ out.req.marker = arg.marker

\* "Foo_Bar[b, a] >= 1.0 , >= 2.* ; a;b " was parsed
C16_Witness ==
    /\ ParseReturned
    /\ arg.kind = "built"
    /\ arg.s = BuildRequirement(<<"F", "o", "o", "_", "B", "a", "r">>, <<S_b, S_a>>,
                                <<VersionSpec("GtEq", VersionAt[1]),
                                  VersionSpec("GtEq", VersionAt[2])>>,
                                Some(<<"a", ";", "b">>), TRUE)
    /\ out.req.name = <<"f", "o", "o", "-", "b", "a", "r">>
    /\ out.req.marker = Some(<<"a", ";", "b">>)
    /\ Len(out.req.specs) = 2

\* The clause begins with the operator text
BeginsWith(c, op) ==
    /\ Len(c) >= Len(OperatorText[op])
    /\ SubSeq(c, 1, Len(OperatorText[op])) = OperatorText[op]

\* The operators a clause begins with, and the longest of them
OperatorsOf(c) == {op \in VersionOp : BeginsWith(c, op)}

RefOperator(c) ==
    CHOOSE op \in OperatorsOf(c) :
        \A o \in OperatorsOf(c) : Len(OperatorText[o]) <= Len(OperatorText[op])

\* What follows the operator of the clause
RefToken(c) == SubSeq(c, Len(OperatorText[RefOperator(c)]) + 1, Len(c))

IllFormed(c) == OperatorsOf(c) = {} \/ RefToken(c) = <<>>

Evaluated(kind) == out.fn = "evaluate" /\ out.parsed /\ arg.kind = kind

\* The condition as labelled holds on the active environment
Holds(cond) ==
    CASE cond.when = "always" -> TRUE
      [] cond.when = "never"  -> FALSE
      [] cond.when = "linux"  -> environment.sys_platform = S_linux

\* The value of c1 k1 c2 k2 ... cn when it is split at the first " or ", the
\* left side at its first " and ", and the right side in the same way: some
\* run of conditions joined by " and ", from the start or an " or " to the
\* next " or " or the end, holds throughout.
RefExpression(conds, conns) ==
    \E i \in 1..Len(conds) :
        /\ i = 1 \/ conns[i - 1] = "or"
        /\ \A j \in i..Len(conds) :
               (\A k \in i..(j - 1) : conns[k] = "and") => Holds(conds[j])

\* C18: Marker::evaluate splits the expression at the first " or " if there
\* is one (left OR right, each side evaluated the same way), otherwise at
\* the first " and " (left AND right), otherwise evaluates the whole string
\* as one condition; parentheses do not group: a side that begins or ends
\* with half a pair of parentheses is evaluated as the condition it is.
C18_SplitAtFirstOrThenAnd ==
    Evaluated("expression") => out.value = RefExpression(arg.conds, arg.conns)

\* "python_version < '3.8' and (python_version >= '3.8' or
\* python_version >= '3.8')" is true: it is split at " or " inside the
\* parentheses, and the right side holds
C18_Witness ==
    /\ Evaluated("expression")
    /\ arg.expr = C_never \o ConnectiveText["and"] \o C_open_paren
                  \o ConnectiveText["or"] \o C_close_paren
    /\ out.value

UnknownVariables == {V_extra, V_foo}

\* C19: a variable that is not a supported name resolves to the empty
\* string, and a condition on it with any of ==, !=, >=, <=, >, < is false
\* unless the literal it is compared with is empty.
C19_UnknownVariableFails ==
    /\ Evaluated("condition")
    /\ arg.variable \in UnknownVariables
    /\ arg.literal # <<>>
    => ~out.value

\* The field of the Environment a variable names
NamedField(v) ==
    CASE v = V_python_version -> environment.python_version
      [] v = V_platform -> environment.sys_platform
      [] v = V_sys_platform -> environment.sys_platform
      [] v = V_implementation_name -> environment.implementation_name
      [] v = V_platform_machine -> environment.platform_machine
      [] v = V_os_name -> environment.os_name

\* C20: the marker evaluation of the resolver resolves python_version,
\* platform, sys_platform, implementation_name, platform_machine and os_name
\* to the matching field of the active Environment, platform and
\* sys_platform both naming the platform: variable == 'X' holds exactly when
\* the field is X, so platform == 'X' and sys_platform == 'X' agree.
C20_VariablesNameEnvironmentFields ==
    /\ Evaluated("condition")
    /\ arg.variable \notin UnknownVariables
    /\ arg.op = "Eq"
    => out.value = (NamedField(arg.variable) = arg.literal)

\* The package a name of RegisterInputs or ReuseInputs spells, whatever its case
Spelled(name) == IF name = S_a THEN "a" ELSE "pkg"

\* The calls of the log since the last clear_installed
SinceClear ==
    {i \in 1..Len(log) : \A j \in i..Len(log) : log[j].op # "clear"}

\* The registrations still present that the query names
Registered(query) ==
    {i \in SinceClear : /\ log[i].op = "register"
                        /\ Spelled(log[i].name) = Spelled(query.package_name)
                        /\ log[i].version = query.version}

Latest(S) == CHOOSE i \in S : \A j \in S : j <= i

\* C21: can_reuse_installed is true exactly when a registration of the name
\* (up to case) and version is still present, the query has no link URL, as
\* the registration has none, and the editable flag of the latest such
\* registration is the flag of the query.
C21_ReuseIffLatestRegistrationMatches ==
    out.fn = "can_reuse_installed" =>
        (out.ok <=> /\ Registered(arg) # {}
                    /\ arg.link_url = None
                    /\ log[Latest(Registered(arg))].is_editable = arg.is_editable)

C21_Witness ==
    /\ out.fn = "can_reuse_installed"
    /\ out.ok
    /\ arg.package_name = S_Pkg
    /\ \E i, j \in Registered(arg) :
          i < j /\ log[i].is_editable # log[j].is_editable
    /\ \E i \in 1..Len(log) : log[i].op = "clear"

Selected == out.fn = "select_best"

\* C22: under PreferLatest select_best returns a candidate whose version is
\* below no other candidate's in the ordinal comparison of the versions
\* (dotted components compared as numbers).
C22_LatestIsOrdinalMaximum ==
    Selected /\ strategy = "PreferLatest" /\ arg.candidates # <<>> =>
        /\ out.best.some
        /\ \A i \in 1..Len(arg.candidates) :
              RefCompare(out.best.val.package.version,
                         arg.candidates[i].package.version) # -1

\* The positions of the installed candidates
InstalledAt(candidates) ==
    {i \in 1..Len(candidates) : candidates[i].is_installed}

First(S) == CHOOSE i \in S : \A j \in S : i <= j

FirstInstalledOrFirst(candidates) ==
    IF InstalledAt(candidates) = {} THEN candidates[1]
    ELSE candidates[First(InstalledAt(candidates))]

\* C23: select_best returns nothing for an empty list under every strategy
\* and an element of the list otherwise; under PreferInstalled it is the
\* first installed candidate, or the first candidate when none is installed.
C23_InstalledFirstElseFirst ==
    Selected =>
        /\ arg.candidates = <<>> => out.best = None
        /\ arg.candidates # <<>> =>
              /\ out.best.some
              /\ \E i \in 1..Len(arg.candidates) :
                    out.best.val = arg.candidates[i]
              /\ strategy = "PreferInstalled" =>
                    out.best.val = FirstInstalledOrFirst(arg.candidates)

C23_Witness ==
    /\ Selected
    /\ strategy = "PreferInstalled"
    /\ Len(arg.candidates) = 3
    /\ InstalledAt(arg.candidates) = {2, 3}
    /\ arg.candidates[2] # arg.candidates[3]
    /\ out.best.val = arg.candidates[2]

\* a sorts before b as a string: at the first position where they differ a
\* has ended or has the smaller character ('.' is below every digit)
TextBelow(a, b) ==
    \E k \in 1..(Len(b)) :
        /\ k <= Len(a) + 1
        /\ SubSeq(a, 1, k - 1) = SubSeq(b, 1, k - 1)
        /\ \/ k = Len(a) + 1
           \/ a[k] = "." /\ b[k] # "."
           \/ a[k] # "." /\ b[k] # "." /\ DigitVal[a[k]] < DigitVal[b[k]]

\* What PreferLatest returns: the last candidate no other candidate's
\* version text sorts above
LatestAt(candidates) ==
    {i \in 1..Len(candidates) :
        \A j \in 1..Len(candidates) :
            ~TextBelow(candidates[i].package.version,
                       candidates[j].package.version)}

\* C24: under PreferCompatible, the default strategy, select_best returns
\* what PreferInstalled returns when some candidate is installed, and
\* otherwise the candidate PreferLatest returns.
C24_CompatibleIsInstalledElseLatest ==
    /\ Selected /\ strategy = "PreferCompatible" /\ arg.candidates # <<>> =>
          out.best.val =
             IF InstalledAt(arg.candidates) # {}
             THEN FirstInstalledOrFirst(arg.candidates)
             ELSE arg.candidates[Latest(LatestAt(arg.candidates))]
    /\ Selected /\ strategy = "PreferLatest" /\ arg.candidates # <<>> =>
          out.best.val = arg.candidates[Latest(LatestAt(arg.candidates))]

C24_Witness ==
    /\ Selected
    /\ strategy = "PreferCompatible"
    /\ Len(arg.candidates) = 3
    /\ InstalledAt(arg.candidates) = {}
    /\ out.best.val = arg.candidates[2]
    /\ out.best.val.package.version = V_9_0
    /\ arg.candidates[1].package.version = V_2_0
    /\ arg.candidates[3].package.version = V_10_0

\* The sets still in force that are for the package and version of a query
SetsFor(query) ==
    {i \in SinceClear : /\ log[i].op = "set"
                        /\ Spelled(log[i].package_name) = Spelled(query.package_name)
                        /\ log[i].version = query.version}

GetsSinceClear == {i \in SinceClear : log[i].op = "get"}

IsCall(op) == log' # log /\ log'[Len(log')].op = op

\* C25: a get adds one to hits and returns the entry when one is stored for
\* the package, and adds one to misses and returns nothing otherwise; set
\* changes no counter; clear zeroes both; stats reports total = hits +
\* misses = the gets since the last clear, and hit_rate = hits * 100 / total,
\* 0 when total is 0.
C25_CountersFollowGets ==
    [][/\ IsCall("get") =>
            IF SetsFor(arg') # {}
            THEN hits' = hits + 1 /\ misses' = misses /\ out'.result.some
            ELSE hits' = hits /\ misses' = misses + 1 /\ out'.result = None
       /\ IsCall("set") => hits' = hits /\ misses' = misses
       /\ IsCall("clear") => hits' = 0 /\ misses' = 0
       /\ out'.fn = "stats" =>
            /\ out'.stats.hits = hits /\ out'.stats.misses = misses
            /\ out'.stats.total = hits + misses
            /\ out'.stats.total = Cardinality(GetsSinceClear)
            /\ out'.stats.hit_rate.num * out'.stats.total =
                  hits * 100 * out'.stats.hit_rate.den
            /\ out'.stats.total = 0 => out'.stats.hit_rate.num = 0]_vars

C25_Witness ==
    /\ out.fn = "stats"
    /\ Len(log) = 3
    /\ log[1].op = "get" /\ log[2].op = "set" /\ log[3].op = "get"
    /\ out.stats.hits = 1 /\ out.stats.misses = 1 /\ out.stats.total = 2
    /\ out.stats.hit_rate = [num |-> 50, den |-> 1]

\* The entry a set stores
EntryOf(s) ==
    [package_name |-> s.package_name, version |-> s.version,
     dependencies |-> s.dependencies, extras |-> s.extras]

\* C26: nothing is evicted: a get returns the entry of the latest set for
\* the same version and the same name up to case since the last clear, a get
\* changes no stored entry, and stats().size is the number of distinct
\* packages (name up to case, version) set since the last clear.
C26_LatestSetIsKept ==
    [][/\ IsCall("get") =>
            /\ dep_cache' = dep_cache
            /\ SetsFor(arg') # {} =>
                  out'.result = Some(EntryOf(log[Latest(SetsFor(arg'))]))
       /\ out'.fn = "stats" =>
            out'.stats.size =
               Cardinality({<<Spelled(log[i].package_name), log[i].version>> :
                               i \in {j \in SinceClear : log[j].op = "set"}})]_vars

C26_Witness ==
    /\ out.fn = "get"
    /\ Len(log) = 3
    /\ log[1].op = "set" /\ log[1].package_name = S_pkg
    /\ log[2].op = "set" /\ log[2].package_name = S_Pkg
    /\ log[1].version = log[2].version
    /\ log[1].dependencies # log[2].dependencies
    /\ arg.package_name = S_pkg /\ arg.version = log[1].version
    /\ out.result = Some(EntryOf(log[2]))

\* The text "{name}-{version}" of each package of PackageLists
KeyText(p) ==
    CASE p = P_a -> <<"a", "-", "1", "-", "0">>
      [] p = P_a_1 -> <<"a", "-", "1", "-", "0">>
      [] p = P_B -> <<"B", "-", "1">>

\* The positions of a list whose package has the key
KeyedAt(packages, key) ==
    {i \in 1..Len(packages) : KeyText(packages[i]) = key}

EntryFor(p) ==
    [name |-> p.name, version |-> p.version, summary |-> p.summary,
     dependencies |-> p.requires_dist, hash |-> None, url |-> None]

\* C27: from_packages(list, python_version) gives a lock file of version
\* "1.0" with the given python_version and one entry per distinct key
\* "{name}-{version}" of the list, the entry of the last package with that key.
C27_OneEntryPerKeyLastWins ==
    out.fn = "from_packages" =>
        /\ lock_file.some
        /\ lock_file.val.version = <<"1", ".", "0">>
        /\ lock_file.val.python_version = arg.python_version
        /\ DOMAIN lock_file.val.packages =
              {KeyText(arg.packages[i]) : i \in 1..Len(arg.packages)}
        /\ \A key \in DOMAIN lock_file.val.packages :
              lock_file.val.packages[key] =
                 EntryFor(arg.packages[Latest(KeyedAt(arg.packages, key))])

C27_Witness ==
    /\ out.fn = "from_packages"
    /\ arg.packages = <<P_a_1, P_a>>
    /\ DOMAIN lock_file.val.packages = {<<"a", "-", "1", "-", "0">>}
    /\ lock_file.val.packages[<<"a", "-", "1", "-", "0">>].name = S_a

\* C28: validate() fails exactly when the version is not "1.0" or there is
\* no package, so it succeeds on what from_packages makes of a non-empty list
\* and fails on what it makes of the empty list; it leaves the lock file as
\* it is.
C28_ValidateIffVersionAndPackages ==
    [][out'.fn = "validate" =>
          /\ lock_file' = lock_file
          /\ ~out'.result.ok <=> \/ lock_file.val.version # <<"1", ".", "0">>
                                 \/ DOMAIN lock_file.val.packages = {}
          /\ out.fn = "from_packages" =>
                (out'.result.ok <=> arg.packages # <<>>)]_vars

C28_Witness ==
    /\ out.fn = "validate"
    /\ ~out.result.ok
    /\ lock_file.val = HandWritten

\* The saves made to a path
SavesTo(path) ==
    {i \in 1..Len(log) : log[i].op = "save" /\ log[i].path = path}

\* C29: load of a path a lock file was saved to succeeds and returns the
\* version, generated_at, python_version and packages last saved there,
\* whether validate() accepts them or not; what is loaded after saving
\* from_packages(list, "3.11") of a non-empty list passes validate().
C29_LoadReturnsWhatWasSaved ==
    [][/\ out'.fn = "load" /\ SavesTo(out'.path) # {} =>
            /\ out'.ok
            /\ lock_file' = Some(log[Latest(SavesTo(out'.path))].lock_file)
       /\ /\ out.fn = "load" /\ out.ok /\ out'.fn = "validate"
          /\ lock_file.val # HandWritten
          /\ arg.packages # <<>> /\ arg.python_version = S_3_11
          => out'.result.ok]_vars

C29_Witness ==
    /\ out.fn = "load"
    /\ out.ok
    /\ Len(log) = 2
    /\ log[1].lock_file = HandWritten
    /\ log[2].lock_file # HandWritten
    /\ lock_file.val = log[2].lock_file
    /\ Cardinality(DOMAIN lock_file.val.packages) = 2
    /\ \E key \in DOMAIN lock_file.val.packages :
          lock_file.val.packages[key].summary = Some(<<"s", "\"", "\\">>)

\* The requirement strings of a command: its arguments and the lines of its
\* requirements file that are neither blank nor a comment
EntryStrings(c) ==
    {c.packages[i] : i \in 1..Len(c.packages)}
    \cup (IF c.requirements.some
          THEN {c.requirements.val.lines[i] :
                   i \in 1..Len(c.requirements.val.lines)}
               \ {S_comment, S_blank}
          ELSE {})

\* C30: when a requirement string of an install or lock command does not
\* parse (e=1), no metadata fetch is started and the command does not end
\* in success.
C30_ParseFailureIsHardError ==
    command.cmd # "none" /\ S_e_bad \in EntryStrings(command) =>
        /\ fetches = EmptyMap
        /\ command.status # "Ok(0)"

\* C31: while the fetches of a batch are pending, from before the first one
\* starts, the name of every batch member is in the visited set and no two
\* members have the same name, so no two fetches in flight are for one name.
C31_BatchMarkedAndDistinct ==
    pc = "await" =>
        /\ \A i \in DOMAIN handles : handles[i].name \in visited
        /\ \A i, j \in DOMAIN handles :
              handles[i].name = handles[j].name => i = j
        /\ \A i, j \in InFlight : handles[i].name = handles[j].name => i = j

\* The fetch of a name is in flight whose second copy in the queue was
\* discarded when the batch was formed.
C31_Witness ==
    /\ pc = "await"
    /\ trace # <<>>
    /\ trace[Len(trace)].ev = "dequeue"
    /\ trace[Len(trace)].outcome = "discarded"
    /\ \E i \in InFlight : handles[i].name = trace[Len(trace)].name

\* The names of the batch whose tasks are pending
CurrentBatch == {handles[i].name : i \in DOMAIN handles}

\* The result of the fetch of a name has been applied
Applied(n) == \E k \in Idx : IsResult(k) /\ trace[k].name = n

\* Every batch formed so far but the pending one has all its results
\* applied: the accepted packages are in the result list and the package
\* cache, and every batched name is marked visited
EarlierBatchesApplied ==
    /\ \A k \in Idx :
          Batched(k) => trace[k].name \in CurrentBatch \/ Applied(trace[k].name)
    /\ \A k \in Idx :
          Accepted(k) =>
             /\ \E i \in 1..Len(resolved) : resolved[i] = trace[k].package
             /\ trace[k].package.name \in DOMAIN cache
    /\ BatchedNames \subseteq visited

\* C32: batches are strictly sequenced: results are applied only when every
\* fetch of the batch has completed, and then all of them at once; when a
\* fetch starts and when a batch is formed, every earlier batch has been
\* applied to the result list, the package cache and the visited set.
C32_BatchesStrictlySequenced ==
    [][/\ (Len(trace') > Len(trace) /\ trace'[Len(trace')].ev \in {"result", "dep"}) =>
            /\ \A i \in DOMAIN handles : handles[i].st = "finished"
            /\ handles' = <<>>
            /\ \A i \in DOMAIN handles :
                  \E k \in (Len(trace) + 1)..Len(trace') :
                      trace'[k].ev = "result" /\ trace'[k].name = handles[i].name
       /\ (pc = "await" /\ fetches' # fetches) => EarlierBatchesApplied
       /\ (pc = "collect" /\ pc' = "await") =>
            /\ EarlierBatchesApplied
            /\ CurrentBatch = {}
            /\ \A i \in DOMAIN handles' : handles'[i].name \notin visited]_vars

\* Two fetches of the second batch of a call are in flight, the package of
\* the first batch accepted.
C32_Witness ==
    /\ pc = "await"
    /\ Cardinality(InFlight) = 2
    /\ \E k \in Idx : Accepted(k) /\ trace[k].name \notin CurrentBatch

\* The state of the Resolver and of the call that the result loop writes
driver_state == <<queue, visited, cache, version_cache, resolved>>

\* Some task of the batch is not joined yet
TasksPending ==
    pc = "await" /\ \E i \in DOMAIN handles : handles[i].st # "finished"

\* C33: from the spawning of a batch's tasks until all of them are joined
\* the queue, the visited set, the package cache, the version-parse cache
\* and the result list do not change, whatever the tasks do in whatever
\* order; they change only in steps of the task driving resolve().
C33_TasksShareNoState ==
    [][/\ TasksPending => UNCHANGED driver_state
       /\ handles' # handles /\ handles' # <<>> /\ pc = "await" =>
             UNCHANGED <<driver_state, constraints, environment>>]_vars

\* Of a batch of three one task has finished, one is fetching and one is
\* waiting for its permit.
C33_Witness ==
    /\ pc = "await"
    /\ \E i, j, k \in DOMAIN handles :
          /\ handles[i].st = "finished"
          /\ handles[j].st = "fetching"
          /\ handles[k].st = "spawned"
    /\ \E k \in Idx : IsResult(k)

\* The writes of a key
SetsOf(key) == {i \in 1..Len(log) : log[i].op = "set" /\ log[i].key = key}

\* The latest write of the key is older than the TTL
Expired(key) == clock - log[Latest(SetsOf(key))].at > disk_cache.val.ttl

\* C34: DiskCache::get returns none for a key never set, the bytes of the
\* latest set for a key whose entry is not older than the TTL, and none for a
\* key whose entry is older; the file of an expired entry is then removed,
\* and the files of the other keys are as they were.
C34_GetLatestUnlessExpired ==
    [][out'.fn = "get" =>
          /\ out'.ok
          /\ out'.value =
                IF SetsOf(arg'.key) = {} \/ Expired(arg'.key) THEN None
                ELSE Some(log[Latest(SetsOf(arg'.key))].value)
          /\ SetsOf(arg'.key) # {} /\ Expired(arg'.key) =>
                FileOf(arg'.key) \notin DOMAIN disk'
          /\ \A path \in (DOMAIN disk \cup DOMAIN disk') \ {FileOf(arg'.key)} :
                /\ path \in DOMAIN disk /\ path \in DOMAIN disk'
                /\ disk'[path] = disk[path]
                /\ modified'[path] = modified[path]]_vars

\* An expired entry was evicted by a get while the entry of another key in
\* the same subdirectory stays
C34_Witness ==
    /\ out.fn = "get"
    /\ out.value = None
    /\ SetsOf(arg.key) # {}
    /\ FileOf(arg.key) \notin DOMAIN disk
    /\ \E key \in Urls \ {arg.key} : FileOf(key) \in DOMAIN disk

\* The requests that end the retry loop: a success or a client error
Decisive(responses) ==
    {i \in 1..Len(responses) : responses[i].kind \in {"success", "client"}}

First_(S) == CHOOSE i \in S : \A j \in S : i <= j

MetadataOf(body) ==
    CASE body = B_v1 -> [ok |-> TRUE, value |-> J_v1]
      [] body = B_v2 -> [ok |-> TRUE, value |-> J_v2]
      [] OTHER -> [ok |-> FALSE, value |-> "Failed to parse JSON"]

\* The outcome of the network request alone
RequestOutcome(responses) ==
    IF Decisive(responses) = {}
    THEN [ok |-> FALSE,
          value |-> IF responses[Len(responses)].kind = "server"
                    THEN "Server error" ELSE "Network error"]
    ELSE IF responses[First_(Decisive(responses))].kind = "client"
         THEN [ok |-> FALSE, value |-> "Client error"]
    ELSE MetadataOf(responses[First_(Decisive(responses))].body)

\* C35: when the cache file of the url holds bytes that are no JSON, the
\* call sends the network request and returns the outcome of that request.
C35_CorruptEntryIsMiss ==
    [][/\ out'.fn = "get_package_info"
       /\ disk_cache.some
       /\ FileOf(arg'.url) \in DOMAIN disk
       /\ disk[FileOf(arg'.url)] \in Corrupted
       => /\ out'.sent >= 1
          /\ out'.ok = RequestOutcome(arg'.responses).ok
          /\ out'.value = RequestOutcome(arg'.responses).value]_vars

\* A lookup (not a fresh one) found a damaged, unexpired entry, the request
\* succeeded on the second attempt, and the file holds the new document
C35_Witness ==
    /\ out.fn = "get_package_info"
    /\ ~arg.fresh
    /\ out.before.some
    /\ out.before.val = B_corrupt
    /\ out.ok
    /\ out.sent = 2
    /\ out.value = J_v2
    /\ disk[FileOf(arg.url)] = B_v2
    /\ clock - modified[FileOf(arg.url)] = 0

V_1_0rc1 == <<"1", ".", "0", "r", "c", "1">>

\* The components of a cache entry, as numbers
AsNumbers(parts) == [i \in 1..Len(parts) |-> RefNumber(parts[i])]

\* C36: in every step of resolve() each entry of the version-parse cache
\* stays as it is, and every entry is the list of the numeric components of
\* its version string, in order.
C36_VersionEntriesImmutable ==
    [][pc # "idle" \/ pc' # "idle" =>
          /\ \A v \in DOMAIN version_cache :
                /\ v \in DOMAIN version_cache'
                /\ version_cache'[v] = version_cache[v]
          /\ \A v \in DOMAIN version_cache' :
                AsNumbers(version_cache'[v]) = RefComponents(v)]_vars

\* During a call the cache holds three entries, one of them of a version
\* with a component that is no number
C36_Witness ==
    /\ pc # "idle"
    /\ resolved # <<>>
    /\ Cardinality(DOMAIN version_cache) >= 3
    /\ V_1_0rc1 \in DOMAIN version_cache
    /\ version_cache[V_1_0rc1] = <<<<"1">>>>

\* What the comparison of two versions in version order says of an operator
RefHolds(op, c) ==
    CASE op = <<">", "=">> -> c # -1
      [] op = <<"<", "=">> -> c # 1
      [] op = <<">">> -> c = 1
      [] op = <<"<">> -> c = -1

\* C37: evaluate of python_version >= "X" is true exactly when the python
\* version of the context is the same as or later than X in version order,
\* and likewise for <=, > and <.
C37_PythonVersionInVersionOrder ==
    /\ out.fn = "evaluate"
    /\ arg.var = S_python_version
    /\ arg.op \in {<<">", "=">>, <<"<", "=">>, <<">">>, <<"<">>}
    => (out.value <=>
            RefHolds(arg.op, RefCompare(arg.context.python_version, arg.x)))

\* The state of the driving task, without the history of the call
DriverAt(q, vis, pkgs, vc, res) ==
    [cache |-> pkgs, visited |-> vis, version_cache |-> vc, queue |-> q,
     resolved |-> res, trace |-> <<>>, failed |-> FALSE]

\* The handles of a batch with every task at its end
Completed(hs, w) ==
    [i \in 1..Len(hs) |->
        [hs[i] EXCEPT !.st = "finished", !.at = 1,
                      !.result = join_result(get_package_metadata(w, hs[i].name))]]

\* What the call returns when every batch is joined in the order of its
\* handles: from the head of the outer loop, and from a batch in flight
RECURSIVE RunCollect(_, _, _, _)
RECURSIVE RunBatch(_, _, _, _, _)
RECURSIVE RunAwait(_, _, _, _, _)
RECURSIVE RunApplied(_, _, _, _)
RunCollect(st, cons, env, w) ==
    CHOOSE res \in {RunBatch(st, c, cons, env, w) :
                      c \in {collect_batch(st.queue, st.visited, <<>>, <<>>)}} :
        TRUE

RunBatch(st, c, cons, env, w) ==
    IF st.queue = <<>> \/ c.batch = <<>> THEN return_ok(st.resolved)
    ELSE RunAwait(DriverAt(c.queue, c.visited, st.cache, st.version_cache,
                           st.resolved),
                  spawn_batch(c.batch, cons), cons, env, w)

RunAwait(st, hs, cons, env, w) ==
    CHOOSE res \in {RunApplied(r, cons, env, w) :
                      r \in {process_results(st, done, env) :
                               done \in {Completed(hs, w)}}} : TRUE

RunApplied(r, cons, env, w) ==
    IF r.failed THEN [status |-> "Err", value |-> <<>>]
    ELSE RunCollect(DriverAt(r.queue, r.visited, r.cache, r.version_cache,
                             r.resolved), cons, env, w)

\* What the call in progress returns under that schedule
InOrderReturn ==
    CASE pc = "idle" -> ret
      [] pc = "collect" ->
            RunCollect(DriverAt(queue, visited, cache, version_cache, resolved),
                       constraints, environment, world)
      [] pc = "await" ->
            RunAwait(DriverAt(queue, visited, cache, version_cache, resolved),
                     handles, constraints, environment, world)

\* The names of the results a step applies, in the order it applies them
AppliedNames(before, after) ==
    LET new == SelectSeq(SubSeq(after, Len(before) + 1, Len(after)),
                         LAMBDA e : e.ev = "result")
    IN  [i \in 1..Len(new) |-> new[i].name]

\* What the tasks of the batch were spawned with
Spawned(hs) ==
    [i \in 1..Len(hs) |->
        <<hs[i].name, hs[i].specs, hs[i].constraint_reqs, hs[i].req_name>>]

\* C38: whatever task gets its permit or finishes next, the call returns
\* what it returns when every batch is joined in handle order: a step of a
\* task changes nothing that return depends on, and a step of the driving
\* task leaves that return as it was; the results of a batch are applied in
\* the order of the batch.
C38_SchedulingIndependent ==
    [][/\ pc = "await" /\ pc' = "await" =>
             /\ Spawned(handles') = Spawned(handles)
             /\ UNCHANGED <<driver_state, constraints, environment, world>>
       /\ pc # "idle" /\ pc' # pc => InOrderReturn' = InOrderReturn
       /\ pc = "await" /\ pc' # "await" =>
             AppliedNames(trace, trace') =
                [i \in 1..Len(AppliedNames(trace, trace')) |-> handles[i].name]]_vars

\* After an earlier batch was applied, the second task of a batch has
\* finished before the first
C38_Witness ==
    /\ pc = "await"
    /\ resolved # <<>>
    /\ Len(handles) >= 2
    /\ all_joined(handles)
    /\ handles[1].at = 2

\* No fetch of the call ended with a failed task
AllAnswered ==
    \A n \in DOMAIN fetches : get_package_metadata(world, n).kind # "Panic"

\* resolve_sequential on a new Resolver with the same constraints
SequentialOnFresh ==
    resolve_sequential(
        SequentialState(call.reqs, {}, EmptyMap, EmptyMap, <<>>, {}),
        constraints, environment, world)

\* C39: a call of resolve() on a fresh Resolver, every fetch of which got an
\* answer, returns the list that resolve_sequential returns for the same
\* requirements, constraints, environment and source, in the same order, and
\* has fetched the same names.
C39_SequentialAndConcurrentAgree ==
    Returned /\ FreshCall /\ AllAnswered =>
        \A s \in {SequentialOnFresh} :
            /\ s.status = "Ok"
            /\ s.value = ret.value
            /\ s.fetched = DOMAIN fetches

\* A call under constraints returned three packages or more, after an
\* error answer, a dependency skipped for its marker and a requirement
\* dequeued twice
C39_Witness ==
    /\ Returned
    /\ FreshCall
    /\ AllAnswered
    /\ constraints # EmptyMap
    /\ Len(ret.value) >= 3
    /\ \E k \in Idx : Discarded(k)
    /\ \E k \in Idx : IsDep(k) /\ trace[k].outcome = "marker_false"
    /\ \E k \in Idx : IsResult(k) /\ trace[k].outcome = "fetch_error"

\* The one marker of the scenarios, sys_platform=='linux', is false on the
\* Windows environment and true on the Linux one
MarkedLinux(req) == req.marker.some

FalseHere(req) == MarkedLinux(req) /\ environment = EnvWindows

\* The name is asked for by the initial list or by a dependency that was
\* pushed to the queue
AskedFor(n) ==
    \/ \E i \in DOMAIN call.reqs : call.reqs[i].name = n
    \/ \E k \in Idx : IsDep(k) /\ trace[k].outcome = "enqueued"
                      /\ trace[k].req.name = n

\* C40: at the return of a call on a fresh Resolver every requirement of
\* the initial list is visited and was fetched, whatever its marker; a
\* dependency is skipped exactly when it has a marker that is false under
\* the environment, and a skipped dependency causes no fetch.
C40_MarkersOnDependencyEdgesOnly ==
    Returned /\ FreshCall =>
        /\ \A i \in DOMAIN call.reqs :
              /\ call.reqs[i].name \in visited
              /\ call.reqs[i].name \in DOMAIN fetches
        /\ \A k \in Idx :
              IsDep(k) /\ trace[k].outcome # "unparseable" =>
                 (trace[k].outcome = "marker_false" <=> FalseHere(trace[k].req))
        /\ \A n \in DOMAIN fetches : AskedFor(n)

\* On Windows the initial list was beta>=1.0; sys_platform=='linux': beta
\* was fetched and is in the returned list
C40_Witness ==
    /\ Returned
    /\ FreshCall
    /\ environment = EnvWindows
    /\ Len(call.reqs) = 1
    /\ FalseHere(call.reqs[1])
    /\ S_beta \in DOMAIN fetches
    /\ Len(ret.value) = 1
    /\ ret.value[1].name = S_beta

====
